---- MODULE Spec2Model ----
(***************************************************************************)
(* Verification model of the Denver recreation-centre calendar             *)
(* (src/src/script.js and the GeoService module, src/unnamed/part_001).    *)
(*                                                                         *)
(* Strings are sequences of one-character strings, so that the regular     *)
(* expressions of normalizeTimeString / timeToMinutes are modelled by      *)
(* what they do to the characters.  The JavaScript value undefined is the  *)
(* one-element sequence Undefined (its element is not a character).        *)
(***************************************************************************)
EXTENDS Integers, Sequences, FiniteSets, TLC

VARIABLES
    timeInput,      \* argument t of timeToMinutes
    timeSrc,        \* how timeInput was produced (well-formed h/m/meridiem or loose)
    timeResult,     \* value returned by timeToMinutes
    timeDone,       \* TRUE once timeToMinutes has returned
    items,          \* gymData.items: one facility's events, in source order
    startHourSel,   \* startHourSel.value
    endHourSel,     \* endHourSel.value
    sortedItems,    \* renderCalendar: the facility's events sorted by start time
    eventPositions, \* renderCalendar: the result of calculateEventColumns
    gridEvents,     \* the events appended to the facility's hour grid
    renderThrew,    \* TRUE when an exception left renderCalendar
    layoutDone,     \* TRUE once the facility's column has been rendered
    staticDistancesData, \* the static distance table, Null until loaded
    homeLocation,   \* the static table's origin, Null until the table is loaded
    distancesData,  \* the distance data in use
    locationStatus, \* 'unknown', 'loading', 'home', 'granted', 'cached', 'denied'
    userLocation,   \* the last position stored by a resolution
    geoCache,       \* localStorage[CACHE_KEY]: the GeoCache entry, Null when absent
    orsApiKey,      \* TRUE when localStorage holds a routing-API key
    clock,          \* Date.now(), as a counter of computations
    pending,        \* the distance resolutions waiting for a geolocation answer
    apiKeyModal,    \* TRUE while the API-key modal is open
    initPhase,      \* "fetchStatic" until loadDistancesData has fetched the table
    resolvesStarted, \* number of user-triggered resolutions so far
    geoQueries,     \* number of calls of getCurrentPosition so far
    lastResolve,    \* the most recently completed resolution and what it returned
    allData,        \* the events of the loaded day
    selectedGyms,   \* the facilities ticked in the facility dropdown
    selectedClasses, \* the activities ticked in the activity dropdown
    hideCancelled,  \* the hide-cancelled checkbox
    searchText,     \* the value of the search input
    distanceSort,   \* the value of the distance-sort select
    gymLimit,       \* the value of the facility-limit select
    parsed,         \* the facility groups handed to renderCalendar
    statusText,     \* the status line
    weekManifest,   \* the week's list of day files, Null until loaded
    currentDayIndex, \* the selected day tab, counted from 1
    dayFetches,     \* the day files whose fetch has not answered yet
    shownDay        \* the day whose events are in allData, 0 before any load

timeVars == <<timeInput, timeSrc, timeResult, timeDone>>

layoutVars == <<items, startHourSel, endHourSel, sortedItems, eventPositions,
                gridEvents, renderThrew, layoutDone>>

geoVars == <<staticDistancesData, homeLocation, distancesData, locationStatus,
             userLocation, geoCache, orsApiKey, clock, pending, apiKeyModal,
             initPhase, resolvesStarted, geoQueries, lastResolve>>

filterVars == <<allData, selectedGyms, selectedClasses, hideCancelled,
                searchText, distanceSort, gymLimit, parsed, statusText,
                weekManifest, currentDayIndex, dayFetches, shownDay>>

vars == <<timeInput, timeSrc, timeResult, timeDone,
          items, startHourSel, endHourSel, sortedItems, eventPositions,
          gridEvents, renderThrew, layoutDone,
          staticDistancesData, homeLocation, distancesData, locationStatus,
          userLocation, geoCache, orsApiKey, clock, pending, apiKeyModal,
          initPhase, resolvesStarted, geoQueries, lastResolve,
          allData, selectedGyms, selectedClasses, hideCancelled, searchText,
          distanceSort, gymLimit, parsed, statusText, weekManifest,
          currentDayIndex, dayFetches, shownDay>>

----------------------------------------------------------------------------
(* The parts of the state a specification does not exercise *)

IdleTime ==
    /\ timeInput = <<>>
    /\ timeSrc = [kind |-> "idle"]
    /\ timeResult = 0
    /\ timeDone = FALSE

IdleLayout ==
    /\ items = <<>>
    /\ startHourSel = 5
    /\ endHourSel = 22
    /\ sortedItems = <<>>
    /\ eventPositions = <<>>
    /\ gridEvents = <<>>
    /\ renderThrew = FALSE
    /\ layoutDone = FALSE

\* null / undefined of a value that is otherwise a record
Null == [kind |-> "null"]

IdleGeoState ==
    /\ staticDistancesData = Null
    /\ homeLocation = Null
    /\ locationStatus = "unknown"
    /\ userLocation = Null
    /\ geoCache = Null
    /\ orsApiKey = FALSE
    /\ clock = 1
    /\ pending = <<>>
    /\ apiKeyModal = FALSE
    /\ initPhase = "idle"
    /\ resolvesStarted = 0
    /\ geoQueries = 0
    /\ lastResolve = Null

IdleGeo == IdleGeoState /\ distancesData = Null

IdleFilter ==
    /\ allData = <<>>
    /\ selectedGyms = {}
    /\ selectedClasses = {}
    /\ hideCancelled = TRUE
    /\ searchText = <<>>
    /\ distanceSort = "biking"
    /\ gymLimit = "all"
    /\ parsed = <<>>
    /\ statusText = [kind |-> "none"]
    /\ weekManifest = Null
    /\ currentDayIndex = 1
    /\ dayFetches = <<>>
    /\ shownDay = 0

----------------------------------------------------------------------------
(* Bounds *)

MaxHourDigits == 3

\* longest list of one facility's events
MaxEvents == 5

\* longest list of events that includes the irregular ones
MaxOddEvents == 3

\* longest list of events of the three-event scenario
MaxScenarioEvents == 3

\* number of resolutions the user triggers after the initial load
MaxResolves == 3

\* number of items ticked in one dropdown
MaxSelected == 3

\* number of day files whose fetch is awaited at one time
MaxDayFetches == 2

----------------------------------------------------------------------------
(* Characters and strings *)

Undefined == <<"undefined">>

Digits == {"0", "1", "2", "3", "4", "5", "6", "7", "8", "9"}

DigitVal(c) ==
    CASE c = "0" -> 0 [] c = "1" -> 1 [] c = "2" -> 2 [] c = "3" -> 3
      [] c = "4" -> 4 [] c = "5" -> 5 [] c = "6" -> 6 [] c = "7" -> 7
      [] c = "8" -> 8 [] c = "9" -> 9

DigitChar(n) ==
    CASE n = 0 -> "0" [] n = 1 -> "1" [] n = 2 -> "2" [] n = 3 -> "3"
      [] n = 4 -> "4" [] n = 5 -> "5" [] n = 6 -> "6" [] n = 7 -> "7"
      [] n = 8 -> "8" [] n = 9 -> "9"

\* !s for a string-or-undefined value
Falsy(s) == s = Undefined \/ s = <<>>

\* \s of the regular expressions
IsSpace(c) == c \in {" ", "\t"}

\* String.prototype.toLowerCase on the letters that occur in time strings
ToLowerChar(c) ==
    CASE c = "A" -> "a" [] c = "P" -> "p" [] c = "M" -> "m" [] c = "X" -> "x"
      [] OTHER -> c

\* parseInt(s, 10) of a string of decimal digits
RECURSIVE parseInt(_)
parseInt(s) ==
    IF s = <<>> THEN 0
    ELSE parseInt(SubSeq(s, 1, Len(s) - 1)) * 10 + DigitVal(s[Len(s)])

IsMeridiem(a, b) == a \in {"a", "p"} /\ b = "m"

----------------------------------------------------------------------------
(* TimeNormalizer: normalizeTimeString and timeToMinutes *)

\* s.replace(/\s+/g,'').toLowerCase().replace(/\./g,'')
StripLower(s) ==
    LET noSpace == SelectSeq(s, LAMBDA c : ~IsSpace(c))
        lower   == [i \in 1..Len(noSpace) |-> ToLowerChar(noSpace[i])]
    IN  SelectSeq(lower, LAMBDA c : c # ".")

\* /^\d{1,2}(am|pm)$/.test(s)
IsBareHour(s) ==
    /\ Len(s) \in {3, 4}
    /\ \A i \in 1..(Len(s) - 2) : s[i] \in Digits
    /\ IsMeridiem(s[Len(s) - 1], s[Len(s)])

\* if(/^\d{1,2}(am|pm)$/.test(s)) s = s.replace(/(\d{1,2})(am|pm)/,'$1:00$2')
InsertMinutes(c) ==
    IF IsBareHour(c)
    THEN SubSeq(c, 1, Len(c) - 2) \o <<":", "0", "0">> \o SubSeq(c, Len(c) - 1, Len(c))
    ELSE c

normalizeTimeString(s) ==
    IF Falsy(s) THEN s ELSE InsertMinutes(StripLower(s))

\* /(\d{1,2}):(\d{2})(am|pm)/i matches at position i with a k-digit hour
MatchesAt(t, i, k) ==
    /\ i + k + 4 <= Len(t)
    /\ \A j \in i..(i + k - 1) : t[j] \in Digits
    /\ t[i + k] = ":"
    /\ t[i + k + 1] \in Digits
    /\ t[i + k + 2] \in Digits
    /\ IsMeridiem(ToLowerChar(t[i + k + 3]), ToLowerChar(t[i + k + 4]))

NoMatch == [found |-> FALSE]

\* the groups of a match at position i with a k-digit hour
MatchGroups(t, i, k) ==
    [found |-> TRUE,
     hh    |-> parseInt(SubSeq(t, i, i + k - 1)),
     mm    |-> parseInt(SubSeq(t, i + k + 1, i + k + 2)),
     ampm  |-> ToLowerChar(t[i + k + 3])]

\* \d{1,2} is greedy: two hour digits when that matches, else one
MatchAtStart(t, i) ==
    MatchGroups(t, i, IF MatchesAt(t, i, 2) THEN 2 ELSE 1)

\* the leftmost of the positions where the pattern matches
LeftmostMatch(t, starts) ==
    IF starts = {} THEN NoMatch
    ELSE MatchAtStart(t, CHOOSE x \in starts : \A y \in starts : x <= y)

\* t.match(/(\d{1,2}):(\d{2})(am|pm)/i)
TimeMatch(t) ==
    LeftmostMatch(t, {i \in 1..Len(t) : MatchesAt(t, i, 2) \/ MatchesAt(t, i, 1)})

\* a conversion that forgets the two special cases of hour 12
To24HourNoTwelve(hh, ampm) ==
    IF ampm = "p" THEN hh + 12 ELSE hh

\* the 12-hour to 24-hour conversion shared by timeToMinutes and parseTimeToISO
To24Hour(hh, ampm) ==
    IF ampm = "p" /\ hh # 12 THEN hh + 12
    ELSE IF ampm = "a" /\ hh = 12 THEN 0
    ELSE hh

\* hh * 60 + mm of a match, 0 when the pattern did not match
MinutesOfMatch(m) ==
    IF ~m.found THEN 0 ELSE To24Hour(m.hh, m.ampm) * 60 + m.mm

timeToMinutes(t) ==
    IF Falsy(t) THEN 0 ELSE MinutesOfMatch(TimeMatch(normalizeTimeString(t)))

----------------------------------------------------------------------------
(* Inputs of the time specification *)

\* the decimal digits of n, without leading zeros
RECURSIVE NumStr(_)
NumStr(n) ==
    IF n < 10 THEN <<DigitChar(n)>>
    ELSE NumStr(n \div 10) \o <<DigitChar(n % 10)>>

TwoDigits(n) == <<DigitChar(n \div 10), DigitChar(n % 10)>>

\* one way of writing the time h:m am/pm
FormatTime(f) ==
    LET a    == IF f.pm THEN "p" ELSE "a"
        a1   == IF f.upper THEN (IF f.pm THEN "P" ELSE "A") ELSE a
        m1   == IF f.upper THEN "M" ELSE "m"
        mer  == IF f.dotted THEN <<a1, ".", m1, ".">> ELSE <<a1, m1>>
        mins == IF f.bare THEN <<>> ELSE <<":">> \o TwoDigits(f.m)
        sp   == IF f.spaced THEN <<" ">> ELSE <<>>
    IN  NumStr(f.h) \o mins \o sp \o mer

WellFormedTimes ==
    {f \in [kind : {"wellformed"}, h : 1..12, m : 0..59, pm : BOOLEAN,
            bare : BOOLEAN, upper : BOOLEAN, spaced : BOOLEAN, dotted : BOOLEAN] :
        f.bare => f.m = 0}

RECURSIVE SeqsUpTo(_, _)
SeqsUpTo(S, n) ==
    IF n = 0 THEN {<<>>}
    ELSE LET shorter == SeqsUpTo(S, n - 1)
         IN  shorter \cup {Append(s, x) : s \in {q \in shorter : Len(q) = n - 1}, x \in S}

\* strings that need not be times: digits, an optional colon, digits, a suffix
LooseTimes ==
    {hd \o sep \o md \o suf :
        hd  \in SeqsUpTo({"0", "1", "2", "9"}, MaxHourDigits),
        sep \in {<<>>, <<":">>},
        md  \in SeqsUpTo({"0", "5", "9"}, 2),
        suf \in {<<>>, <<"a", "m">>, <<"p", "m">>, <<"P", "M">>,
                 <<"p", ".", "m", ".">>, <<"x">>}}
    \cup {Undefined}

----------------------------------------------------------------------------
(* Specification of the time normalizer *)

InitTime ==
    /\ \/ \E f \in WellFormedTimes :
            /\ timeSrc = f
            /\ timeInput = FormatTime(f)
       \/ \E s \in LooseTimes :
            /\ timeSrc = [kind |-> "loose"]
            /\ timeInput = s
    /\ timeResult = 0
    /\ timeDone = FALSE
    /\ IdleLayout
    /\ IdleGeo
    /\ IdleFilter

TimeToMinutesCall ==
    /\ ~timeDone
    /\ timeResult' = timeToMinutes(timeInput)
    /\ timeDone' = TRUE
    /\ UNCHANGED <<timeInput, timeSrc>>
    /\ UNCHANGED layoutVars
    /\ UNCHANGED geoVars
    /\ UNCHANGED filterVars

NextTime == TimeToMinutesCall

SpecTime == InitTime /\ [][NextTime]_vars

----------------------------------------------------------------------------
(* Inputs of the layout specification *)

Str5am   == <<"5", "a", "m">>
Str500am == <<"5", ":", "0", "0", "a", "m">>
Str6am   == <<"6", "a", "m">>
Str6a_m_ == <<"6", " ", "a", ".", "m", ".">>
Str7am   == <<"7", "a", "m">>
Str700AM == <<"7", ":", "0", "0", " ", "A", "M">>
Str8am   == <<"8", "a", "m">>
Str800am == <<"8", ":", "0", "0", "a", "m">>
Str900am  == <<"9", ":", "0", "0", "a", "m">>
Str930am  == <<"9", ":", "3", "0", "a", "m">>
Str1000am == <<"1", "0", ":", "0", "0", "a", "m">>
Str1015am == <<"1", "0", ":", "1", "5", "a", "m">>
Str1030am == <<"1", "0", ":", "3", "0", "a", "m">>
Str1100am == <<"1", "1", ":", "0", "0", "a", "m">>
Str10pm   == <<"1", "0", "p", "m">>
Str11pm   == <<"1", "1", "p", "m">>
StrNoon   == <<"n", "o", "o", "n">>

Event(s, e) == [start |-> s, end |-> e, cancelled |-> FALSE]

\* the scenario of three events at one facility
EventA == Event(Str900am, Str1000am)
EventB == Event(Str930am, Str1030am)
EventC == Event(Str1015am, Str1100am)

\* regular events on an hour grid
CorePool ==
    {Event(Str5am, Str6am), Event(Str500am, Str700AM), Event(Str6a_m_, Str8am),
     Event(Str7am, Str800am)}

\* irregular events: zero duration, end before start, no start time, no end
\* time, an unparseable start, a cancelled event without a start time, an
\* event late in the evening; and one regular event
OddPool ==
    {Event(Str6am, Str6am), Event(Str7am, Str6am), Event(Undefined, Str7am),
     Event(Str6am, Undefined), Event(StrNoon, Str7am),
     [start |-> Undefined, end |-> Str7am, cancelled |-> TRUE],
     Event(Str10pm, Str11pm), Event(Str500am, Str700AM)}

ScenarioPool == {EventA, EventB, EventC}

AllPools == CorePool \cup OddPool \cup ScenarioPool

\* the time strings of the events above
PoolTimeStrings == {e.start : e \in AllPools} \cup {e.end : e \in AllPools}

\* timeToMinutes of every time string of the pools, evaluated once
TimeTable == [s \in PoolTimeStrings |-> timeToMinutes(s)]

\* timeToMinutes(t), looked up in the table when t is one of the pools' strings
timeToMinutesMemo(t) ==
    IF t \in PoolTimeStrings THEN TimeTable[t] ELSE timeToMinutes(t)

\* the values of the two hour selects; 0 selects the default hour
HourWindows == {<<0, 0>>, <<6, 8>>, <<6, 7>>}

----------------------------------------------------------------------------
(* EventLayoutEngine: calculateEventColumns and the per-facility part of    *)
(* renderCalendar                                                          *)

Max(a, b) == IF a >= b THEN a ELSE b
Min(a, b) == IF a <= b THEN a ELSE b

\* timeToMinutes(item.start) and timeToMinutes(item.end) of every item
ItemMinutes(its) ==
    [i \in 1..Len(its) |->
        [startMins |-> timeToMinutesMemo(its[i].start),
         endMins   |-> timeToMinutesMemo(its[i].end)]]

\* the list with the item put after its first k items
InsertAfter(sorted, item, k) ==
    SubSeq(sorted, 1, k) \o <<item>> \o SubSeq(sorted, k + 1, Len(sorted))

\* the largest element of a set of positions, 0 for the empty set
LastOf(keep) ==
    IF keep = {} THEN 0 ELSE CHOOSE i \in keep : \A j \in keep : j <= i

\* the place of an item with start time key in a list already sorted by start
\* time: after the items that start no later (Array.prototype.sort is stable)
InsertByKey(sorted, item, key) ==
    InsertAfter(sorted, item,
        LastOf({i \in 1..Len(sorted) : timeToMinutesMemo(sorted[i].start) <= key}))

InsertByStart(sorted, item) ==
    InsertByKey(sorted, item, timeToMinutesMemo(item.start))

\* gymData.items.slice().sort((a, b) => timeToMinutes(a.start) - timeToMinutes(b.start))
RECURSIVE SortByStart(_)
SortByStart(its) ==
    IF its = <<>> THEN <<>>
    ELSE InsertByStart(SortByStart(SubSeq(its, 1, Len(its) - 1)), its[Len(its)])

\* parseInt(startHourSel.value, 10) || 5 and parseInt(endHourSel.value, 10) || 22
StartHour(sel) == IF sel = 0 THEN 5 ELSE sel
EndHour(sel) == IF sel = 0 THEN 22 ELSE sel

\* the test that skips an event outside the visible range
OutsideVisibleRange(startMins, endMins, startHour, endHour) ==
    endMins <= startHour * 60 \/ startMins >= endHour * 60

\* a filter that drops an event up to an hour before it has ended
StillActiveDropsEarly(activeEvents, startMins) ==
    SelectSeq(activeEvents, LAMBDA e : e.endMins > startMins + 60)

\* activeEvents.filter(e => e.endMins > startMins)
StillActive(activeEvents, startMins) ==
    SelectSeq(activeEvents, LAMBDA e : e.endMins > startMins)

\* a choice of column that counts the active events instead of looking for
\* the first free column
FirstFreeColumnByCount(stillActive) == Len(stillActive)

\* let column = 0; while (usedColumns.has(column)) column++
FirstUnused(usedColumns) ==
    CHOOSE c \in 0..Cardinality(usedColumns) :
        /\ c \notin usedColumns
        /\ \A d \in 0..(c - 1) : d \in usedColumns

\* const usedColumns = new Set(stillActive.map(e => e.column))
FirstFreeColumn(stillActive) ==
    FirstUnused({stillActive[i].column : i \in 1..Len(stillActive)})

\* the active list after a visible event has taken its column
PushActive(stillActive, idx, m, column) ==
    Append(stillActive, [idx |-> idx, startMins |-> m.startMins,
                         endMins |-> m.endMins, column |-> column])

\* first pass of calculateEventColumns, from item idx on
RECURSIVE FirstPass(_, _, _, _, _, _)
RECURSIVE PlaceEvent(_, _, _, _, _, _, _)
PlaceEvent(mins, startHour, endHour, idx, stillActive, positions, column) ==
    FirstPass(mins, startHour, endHour, idx + 1,
              PushActive(stillActive, idx, mins[idx], column),
              Append(positions, [column |-> column, totalColumns |-> 1]))

RECURSIVE PlaceAmong(_, _, _, _, _, _)
PlaceAmong(mins, startHour, endHour, idx, stillActive, positions) ==
    PlaceEvent(mins, startHour, endHour, idx, stillActive, positions,
               FirstFreeColumn(stillActive))

FirstPass(mins, startHour, endHour, idx, activeEvents, positions) ==
    IF idx > Len(mins) THEN positions
    ELSE IF OutsideVisibleRange(mins[idx].startMins, mins[idx].endMins,
                                startHour, endHour)
         THEN FirstPass(mins, startHour, endHour, idx + 1, activeEvents,
                        Append(positions, [column |-> 0, totalColumns |-> 1]))
         ELSE PlaceAmong(mins, startHour, endHour, idx,
                         StillActive(activeEvents, mins[idx].startMins), positions)

\* startMins < otherEnd && endMins > otherStart
Overlaps(a, b) == a.startMins < b.endMins /\ a.endMins > b.startMins

\* the largest element of a non-empty set of numbers
MaxOf(S) == CHOOSE c \in S : \A d \in S : d <= c

\* the events other than idx that overlap it
OverlappingOthers(mins, idx) ==
    {o \in 1..Len(mins) : o # idx /\ Overlaps(mins[idx], mins[o])}

\* a variant of the second pass that takes the largest column for the number
\* of columns
SecondPassLargestColumn(mins, positions) ==
    [idx \in 1..Len(mins) |->
        [column       |-> positions[idx].column,
         totalColumns |-> MaxOf({positions[o].column :
                                   o \in OverlappingOthers(mins, idx) \cup {idx}})]]

\* second pass: totalColumns = 1 + the largest column among the event and the
\* events it overlaps
SecondPass(mins, positions) ==
    [idx \in 1..Len(mins) |->
        [column       |-> positions[idx].column,
         totalColumns |-> 1 + MaxOf({positions[o].column :
                                       o \in OverlappingOthers(mins, idx) \cup {idx}})]]

\* positions[idx].totalColumns = maxCols; positions[otherIdx].totalColumns = maxCols
SetBoth(positions, idx, otherIdx, maxCols) ==
    [positions EXCEPT ![idx].totalColumns = maxCols,
                      ![otherIdx].totalColumns = maxCols]

\* the body of the third pass's inner loop for the pair (idx, otherIdx)
MergePair(mins, positions, idx, otherIdx) ==
    IF idx # otherIdx /\ Overlaps(mins[idx], mins[otherIdx])
    THEN SetBoth(positions, idx, otherIdx,
                 Max(positions[idx].totalColumns, positions[otherIdx].totalColumns))
    ELSE positions

\* third pass: one sweep over the pairs (idx, otherIdx) in loop order; k counts
\* the pairs already visited
RECURSIVE ThirdPass(_, _, _)
ThirdPass(mins, positions, k) ==
    IF k >= Len(mins) * Len(mins) THEN positions
    ELSE ThirdPass(mins,
                   MergePair(mins, positions, (k \div Len(mins)) + 1, (k % Len(mins)) + 1),
                   k + 1)

\* the three passes, on the parsed times
ColumnsOfMinutes(mins, startHour, endHour) ==
    ThirdPass(mins,
              SecondPass(mins, FirstPass(mins, startHour, endHour, 1, <<>>, <<>>)),
              0)

\* a variant that lays out the whole day, whatever the visible window
calculateEventColumnsWholeDay(its, startHour, endHour) ==
    ColumnsOfMinutes(ItemMinutes(its), 0, 24)

calculateEventColumns(its, startHour, endHour) ==
    ColumnsOfMinutes(ItemMinutes(its), startHour, endHour)

\* parseTimeToISO(timeStr, dateStr) throws a TypeError: normalizeTimeString
\* returns undefined unchanged and normalized.match is then evaluated on it
ParseTimeToISOThrows(timeStr) == normalizeTimeString(timeStr) = Undefined

\* createGoogleCalendarLink(item, gymName) throws
CalendarLinkThrows(item) ==
    ParseTimeToISOThrows(item.start) \/ ParseTimeToISOThrows(item.end)

\* the events of sortedItems that renderCalendar does not skip
VisibleIndices(its, startHour, endHour) ==
    {i \in 1..Len(its) :
        ~OutsideVisibleRange(timeToMinutesMemo(its[i].start), timeToMinutesMemo(its[i].end),
                             startHour, endHour)}

\* the visible events on which building the event element throws
ThrowingIndices(its, startHour, endHour) ==
    {i \in VisibleIndices(its, startHour, endHour) :
        ~its[i].cancelled /\ CalendarLinkThrows(its[i])}

RECURSIVE SetToSortedSeq(_)
SetToSortedSeq(S) ==
    IF S = {} THEN <<>>
    ELSE LET m == CHOOSE x \in S : \A y \in S : x <= y
         IN  <<m>> \o SetToSortedSeq(S \ {m})

----------------------------------------------------------------------------
(* Specification of the layout of one facility's column *)

InitLayout ==
    /\ items \in SeqsUpTo(CorePool, MaxEvents) \cup SeqsUpTo(OddPool, MaxOddEvents)
                  \cup SeqsUpTo(ScenarioPool, MaxScenarioEvents)
    /\ \E w \in HourWindows : startHourSel = w[1] /\ endHourSel = w[2]
    /\ sortedItems = <<>>
    /\ eventPositions = <<>>
    /\ gridEvents = <<>>
    /\ renderThrew = FALSE
    /\ layoutDone = FALSE
    /\ IdleTime
    /\ IdleGeo
    /\ IdleFilter

\* renderCalendar, for one facility: sort, calculateEventColumns, then build
\* the element of every visible event until one of them throws
RenderGymColumn ==
    /\ ~layoutDone
    /\ \E sorted \in {SortByStart(items)} :
       \E throwing \in {ThrowingIndices(sorted, StartHour(startHourSel),
                                         EndHour(endHourSel))} :
          /\ sortedItems' = sorted
          /\ eventPositions' = calculateEventColumns(sorted, StartHour(startHourSel),
                                                     EndHour(endHourSel))
          /\ gridEvents' = SetToSortedSeq(
                 {i \in VisibleIndices(sorted, StartHour(startHourSel),
                                        EndHour(endHourSel)) :
                     \A j \in throwing : i < j})
          /\ renderThrew' = (throwing # {})
    /\ layoutDone' = TRUE
    /\ UNCHANGED <<items, startHourSel, endHourSel>>
    /\ UNCHANGED timeVars
    /\ UNCHANGED geoVars
    /\ UNCHANGED filterVars

NextLayout == RenderGymColumn

SpecLayout == InitLayout /\ [][NextLayout]_vars

----------------------------------------------------------------------------
(* GeoCache and DistanceResolver: GeoService (src/unnamed/part_001) and     *)
(* the distance loading of script.js.                                      *)
(*                                                                         *)
(* Positions lie on the meridian through the static table's origin and are *)
(* given in hundredths of a mile north of it; on one meridian the          *)
(* haversine formula reduces to the earth radius times the difference of   *)
(* the latitudes, i.e. to the difference of two such positions.            *)

Pos(x) == [kind |-> "pos", at |-> x]

\* LOCATION_THRESHOLD_MILES = 0.25, in hundredths of a mile
LOCATION_THRESHOLD_MILES == 25

\* the 0.1 mile of the at-home test, in hundredths of a mile
HomeThreshold == 10

\* homeLocation as set by loadDistancesData
HomePos == Pos(0)

\* what the browser's geolocation can answer: two positions at home (one of
\* them exactly 0.1 mile out), three away (0.25 and 0.26 mile apart)
Positions == {Pos(0), Pos(10), Pos(11), Pos(36), Pos(37)}

\* a geolocation answer: a position, or Null when getCurrentPosition rejects
\* (denied, unsupported, timed out)
GeoOutcomes == Positions \cup {Null}

\* the parsed data/rec_centers_distances.json
StaticData == [kind |-> "static"]

haversineDistance(p, q) == IF p.at >= q.at THEN p.at - q.at ELSE q.at - p.at

\* REC_CENTERS: three of the facilities, in the order of the array, and
\* their positions on the meridian
RecCenters == <<"Ashland", "Glenarm", "Washington Park">>

RecCenterNames == {RecCenters[i] : i \in DOMAIN RecCenters}

RecCenterPos ==
    [c \in RecCenterNames |->
        IF c = "Ashland" THEN Pos(53)
        ELSE IF c = "Glenarm" THEN Pos(119) ELSE Pos(0 - 256)]

\* n / d rounded to the nearest integer (toFixed, Math.round); no position
\* of the model produces a tie
RoundDiv(n, d) == (2 * n + d) \div (2 * d)

\* (straightDist * ROAD_FACTOR).toFixed(1), in tenths of a mile
RoadTenths(straightTenths) == RoundDiv(straightTenths * 135, 100)

EstimatedCenterWalkingUnmarked(origin, c) ==
    [name |-> c,
     straight_line_miles |->
         RoundDiv(haversineDistance(origin, RecCenterPos[c]), 10),
     driving_minutes |-> 0, biking_minutes |-> 0, walking_minutes |-> 0,
     driving_estimated |-> TRUE,
     biking_estimated |-> TRUE,
     walking_estimated |-> FALSE]

\* one element of results.centers: the straight-line estimate of a facility
EstimatedCenter(origin, c) ==
    [name |-> c,
     straight_line_miles |->
         RoundDiv(haversineDistance(origin, RecCenterPos[c]), 10),
     driving_minutes |->
         RoundDiv(RoadTenths(RoundDiv(haversineDistance(origin, RecCenterPos[c]), 10)) * 60, 180),
     biking_minutes |->
         RoundDiv(RoadTenths(RoundDiv(haversineDistance(origin, RecCenterPos[c]), 10)) * 60, 100),
     walking_minutes |->
         RoundDiv(RoadTenths(RoundDiv(haversineDistance(origin, RecCenterPos[c]), 10)) * 60, 30),
     driving_estimated |-> TRUE,
     biking_estimated |-> TRUE,
     walking_estimated |-> TRUE]

\* the routing-API requests of one calculateAllDistances: it computes the
\* estimates itself and never calls calculateDistancesORS, key or no key
OrsRequests(hasKey) == 0

\* the result of calculateAllDistances: straight-line estimates from origin
calculateAllDistances(origin, now) ==
    [kind |-> "calculated", origin |-> origin, timestamp |-> now,
     centers |-> [i \in DOMAIN RecCenters |->
                     EstimatedCenter(origin, RecCenters[i])],
     estimated |-> TRUE]

hasMovedSignificantlyAtThreshold(current, cachedOrigin) ==
    haversineDistance(current, cachedOrigin) >= LOCATION_THRESHOLD_MILES

hasMovedSignificantly(current, cachedOrigin) ==
    haversineDistance(current, cachedOrigin) > LOCATION_THRESHOLD_MILES

\* getDistances when getCurrentPosition rejected
UnavailableIgnoresCache(cached) ==
    [data |-> Null, source |-> "none", userLocation |-> Null, cache |-> cached]

UnavailableDropsCache(cached) ==
    [data |-> cached, source |-> IF cached # Null THEN "cache" ELSE "none",
     userLocation |-> Null, cache |-> Null]

UnavailableResult(cached) ==
    IF cached # Null
    THEN [data |-> cached, source |-> "cache", userLocation |-> Null,
          cache |-> cached]
    ELSE [data |-> Null, source |-> "none", userLocation |-> Null,
          cache |-> cached]

AvailableResultKeepsCache(current, forceRefresh, cached, now) ==
    IF /\ ~forceRefresh
       /\ cached # Null
       /\ ~hasMovedSignificantly(current, cached.origin)
    THEN [data |-> cached, source |-> "cache", userLocation |-> current,
          cache |-> cached]
    ELSE [data |-> calculateAllDistances(current, now),
          source |-> "calculated", userLocation |-> current,
          cache |-> cached]

\* getDistances when getCurrentPosition resolved with position current
AvailableResult(current, forceRefresh, cached, now) ==
    IF /\ ~forceRefresh
       /\ cached # Null
       /\ ~hasMovedSignificantly(current, cached.origin)
    THEN [data |-> cached, source |-> "cache", userLocation |-> current,
          cache |-> cached]
    ELSE [data |-> calculateAllDistances(current, now),
          source |-> "calculated", userLocation |-> current,
          cache |-> calculateAllDistances(current, now)]

\* getDistances: the value it returns (data, source, userLocation) and the
\* GeoCache entry it leaves behind (cache)
getDistances(outcome, forceRefresh, cached, now) ==
    IF outcome = Null
    THEN UnavailableResult(cached)
    ELSE AvailableResult(outcome, forceRefresh, cached, now)

\* a variant that shows no status for a result without data
StatusOfResultDataOnly(result) ==
    IF result.data = Null THEN "loading"
    ELSE IF result.source = "cache" THEN "cached" ELSE "granted"

\* the status loadDynamicDistances shows for a result
StatusOfResult(result) ==
    IF result.data = Null THEN "denied"
    ELSE IF result.source = "cache" THEN "cached" ELSE "granted"

AtHome(userPos) ==
    /\ homeLocation # Null
    /\ staticDistancesData # Null
    /\ haversineDistance(userPos, homeLocation) <= HomeThreshold

RemoveAt(s, i) == SubSeq(s, 1, i - 1) \o SubSeq(s, i + 1, Len(s))

\* a resolution that waits for the answer of a geolocation query
Resolve(fn, stage, forceRefresh) ==
    [fn |-> fn, stage |-> stage, force |-> forceRefresh]

\* the record of a completed resolution
Completed(r, outcome, cacheBefore, data, source, cacheAfter, inUse, status) ==
    [kind |-> "resolve", fn |-> r.fn, via |-> r.stage, force |-> r.force,
     pos |-> outcome, cacheBefore |-> cacheBefore, data |-> data,
     source |-> source, cacheAfter |-> cacheAfter, inUse |-> inUse,
     status |-> status, hasKey |-> orsApiKey,
     others |-> Len(pending) - 1,
     orsRequests |-> IF source = "calculated"
                     THEN OrsRequests(orsApiKey) ELSE 0]

----------------------------------------------------------------------------
(* Specification of the distance resolution *)

\* localStorage may hold a GeoCache entry and an API key of an earlier session
PersistedCaches == {Null} \cup {calculateAllDistances(p, 0) : p \in Positions}

InitGeo ==
    /\ staticDistancesData = Null
    /\ homeLocation = Null
    /\ distancesData = Null
    /\ locationStatus = "unknown"
    /\ userLocation = Null
    /\ geoCache \in PersistedCaches
    /\ orsApiKey \in BOOLEAN
    /\ clock = 1
    /\ pending = <<>>
    /\ apiKeyModal = FALSE
    /\ initPhase = "fetchStatic"
    /\ resolvesStarted = 0
    /\ geoQueries = 0
    /\ lastResolve = Null
    /\ IdleTime
    /\ IdleLayout
    /\ IdleFilter

\* loadDistancesData up to the first await of checkLocationAndLoadDistances:
\* the fetch of the static table succeeds or fails, then the position is
\* queried
LoadDistancesData ==
    /\ initPhase = "fetchStatic"
    /\ \E ok \in BOOLEAN :
          /\ staticDistancesData' = IF ok THEN StaticData ELSE Null
          /\ distancesData' = IF ok THEN StaticData ELSE distancesData
          /\ homeLocation' = IF ok THEN HomePos ELSE Null
    /\ initPhase' = "started"
    /\ locationStatus' = "loading"
    /\ pending' = Append(pending, Resolve("initial", "check", FALSE))
    /\ UNCHANGED <<userLocation, geoCache, orsApiKey, clock, apiKeyModal,
                   resolvesStarted, lastResolve>>
    /\ geoQueries' = geoQueries + 1
    /\ UNCHANGED timeVars
    /\ UNCHANGED layoutVars
    /\ UNCHANGED filterVars

CheckLocationUnavailableRetries ==
    /\ \E i \in DOMAIN pending :
          /\ pending[i].stage = "check"
          /\ distancesData' = staticDistancesData
          /\ locationStatus' = "denied"
          /\ pending' = pending
          /\ lastResolve' = Completed(pending[i], Null, geoCache,
                                      staticDistancesData,
                                      IF staticDistancesData # Null
                                      THEN "static" ELSE "none",
                                      geoCache, staticDistancesData, "denied")
    /\ UNCHANGED <<staticDistancesData, homeLocation, userLocation, geoCache,
                   orsApiKey, clock, apiKeyModal, initPhase, resolvesStarted>>
    /\ geoQueries' = geoQueries + 1
    /\ UNCHANGED timeVars
    /\ UNCHANGED layoutVars
    /\ UNCHANGED filterVars

\* checkLocationAndLoadDistances, catch: getCurrentPosition rejected
CheckLocationUnavailable ==
    /\ \E i \in DOMAIN pending :
          /\ pending[i].stage = "check"
          /\ distancesData' = staticDistancesData
          /\ locationStatus' = "denied"
          /\ pending' = RemoveAt(pending, i)
          /\ lastResolve' = Completed(pending[i], Null, geoCache,
                                      staticDistancesData,
                                      IF staticDistancesData # Null
                                      THEN "static" ELSE "none",
                                      geoCache, staticDistancesData, "denied")
    /\ UNCHANGED <<staticDistancesData, homeLocation, userLocation, geoCache,
                   orsApiKey, clock, apiKeyModal, initPhase, resolvesStarted>>
    /\ UNCHANGED geoQueries
    /\ UNCHANGED timeVars
    /\ UNCHANGED layoutVars
    /\ UNCHANGED filterVars

\* checkLocationAndLoadDistances, the position is within 0.1 mile of home
CheckLocationAtHome ==
    /\ \E i \in DOMAIN pending, userPos \in Positions :
          /\ pending[i].stage = "check"
          /\ AtHome(userPos)
          /\ userLocation' = userPos
          /\ distancesData' = staticDistancesData
          /\ locationStatus' = "home"
          /\ geoCache' = Null
          /\ pending' = RemoveAt(pending, i)
          /\ lastResolve' = Completed(pending[i], userPos, geoCache,
                                      staticDistancesData, "static", Null,
                                      staticDistancesData, "home")
    /\ UNCHANGED <<staticDistancesData, homeLocation, orsApiKey, clock,
                   apiKeyModal, initPhase, resolvesStarted>>
    /\ UNCHANGED geoQueries
    /\ UNCHANGED timeVars
    /\ UNCHANGED layoutVars
    /\ UNCHANGED filterVars

\* checkLocationAndLoadDistances, away from home (or no static table):
\* loadDynamicDistances(false) up to the await of getDistances' position
CheckLocationAway ==
    /\ \E i \in DOMAIN pending, userPos \in Positions :
          /\ pending[i].stage = "check"
          /\ ~AtHome(userPos)
          /\ userLocation' = userPos
          /\ locationStatus' = "loading"
          /\ pending' = [pending EXCEPT ![i] =
                            Resolve(pending[i].fn, "getDistances", FALSE)]
    /\ UNCHANGED <<staticDistancesData, homeLocation, distancesData, geoCache,
                   orsApiKey, clock, apiKeyModal, initPhase, resolvesStarted,
                   lastResolve>>
    /\ geoQueries' = geoQueries + 1
    /\ UNCHANGED timeVars
    /\ UNCHANGED layoutVars
    /\ UNCHANGED filterVars

\* a variant with a generation test: the result of a resolve is dropped when
\* a resolve started after it is still in flight
LoadDynamicDistancesNewestWins ==
    /\ \E i \in DOMAIN pending, outcome \in GeoOutcomes :
          /\ pending[i].stage = "getDistances"
          /\ \E result \in {getDistances(outcome, pending[i].force,
                                         geoCache, clock)} :
                /\ geoCache' = IF i = Len(pending) THEN result.cache
                                ELSE geoCache
                /\ clock' = IF result.source = "calculated"
                            THEN clock + 1 ELSE clock
                /\ distancesData' = IF result.data # Null /\ i = Len(pending)
                                    THEN result.data ELSE distancesData
                /\ userLocation' = IF result.data # Null
                                   THEN result.userLocation ELSE userLocation
                /\ locationStatus' = StatusOfResult(result)
                /\ lastResolve' = Completed(pending[i], outcome, geoCache,
                                            result.data, result.source,
                                            result.cache, distancesData',
                                            StatusOfResult(result))
          /\ pending' = RemoveAt(pending, i)
    /\ UNCHANGED <<staticDistancesData, homeLocation, orsApiKey, apiKeyModal,
                   initPhase, resolvesStarted>>
    /\ UNCHANGED geoQueries
    /\ UNCHANGED timeVars
    /\ UNCHANGED layoutVars
    /\ UNCHANGED filterVars

\* getDistances from the answer of its position query to its return, and the
\* rest of loadDynamicDistances
LoadDynamicDistancesDone ==
    /\ \E i \in DOMAIN pending, outcome \in GeoOutcomes :
          /\ pending[i].stage = "getDistances"
          /\ \E result \in {getDistances(outcome, pending[i].force,
                                         geoCache, clock)} :
                /\ geoCache' = result.cache
                /\ clock' = IF result.source = "calculated"
                            THEN clock + 1 ELSE clock
                /\ distancesData' = IF result.data # Null
                                    THEN result.data ELSE distancesData
                /\ userLocation' = IF result.data # Null
                                   THEN result.userLocation ELSE userLocation
                /\ locationStatus' = StatusOfResult(result)
                /\ lastResolve' = Completed(pending[i], outcome, geoCache,
                                            result.data, result.source,
                                            result.cache, distancesData',
                                            StatusOfResult(result))
          /\ pending' = RemoveAt(pending, i)
    /\ UNCHANGED <<staticDistancesData, homeLocation, orsApiKey, apiKeyModal,
                   initPhase, resolvesStarted>>
    /\ UNCHANGED geoQueries
    /\ UNCHANGED timeVars
    /\ UNCHANGED layoutVars
    /\ UNCHANGED filterVars

\* a variant with a guard: the refresh is ignored while a resolve is in flight
RefreshLocationWhenIdle ==
    /\ pending = <<>>
    /\ locationStatus \in {"home", "granted", "cached", "denied"}
    /\ resolvesStarted < MaxResolves
    /\ resolvesStarted' = resolvesStarted + 1
    /\ locationStatus' = "loading"
    /\ pending' = Append(pending, Resolve("refresh", "getDistances", TRUE))
    /\ UNCHANGED <<staticDistancesData, homeLocation, distancesData,
                   userLocation, geoCache, orsApiKey, clock, apiKeyModal,
                   initPhase, lastResolve>>
    /\ geoQueries' = geoQueries + 1
    /\ UNCHANGED timeVars
    /\ UNCHANGED layoutVars
    /\ UNCHANGED filterVars

\* the refresh button of the location indicator, which the indicator shows
\* in every status but 'unknown' and 'loading'
RefreshLocation ==
    /\ locationStatus \in {"home", "granted", "cached", "denied"}
    /\ resolvesStarted < MaxResolves
    /\ resolvesStarted' = resolvesStarted + 1
    /\ locationStatus' = "loading"
    /\ pending' = Append(pending, Resolve("refresh", "getDistances", TRUE))
    /\ UNCHANGED <<staticDistancesData, homeLocation, distancesData,
                   userLocation, geoCache, orsApiKey, clock, apiKeyModal,
                   initPhase, lastResolve>>
    /\ geoQueries' = geoQueries + 1
    /\ UNCHANGED timeVars
    /\ UNCHANGED layoutVars
    /\ UNCHANGED filterVars

\* the set-up button, shown in the statuses 'granted' and 'cached' while no
\* API key is stored
ShowApiKeyModal ==
    /\ locationStatus \in {"granted", "cached"}
    /\ ~orsApiKey
    /\ ~apiKeyModal
    /\ apiKeyModal' = TRUE
    /\ UNCHANGED <<staticDistancesData, homeLocation, distancesData,
                   locationStatus, userLocation, geoCache, orsApiKey, clock,
                   pending, initPhase, resolvesStarted, lastResolve>>
    /\ UNCHANGED geoQueries
    /\ UNCHANGED timeVars
    /\ UNCHANGED layoutVars
    /\ UNCHANGED filterVars

\* the modal's save button with a non-empty key.  (The modal's clear button
\* exists only when a key is stored at the time the modal opens, and the
\* set-up button that opens the modal exists only when none is.)
SaveApiKey ==
    /\ apiKeyModal
    /\ resolvesStarted < MaxResolves
    /\ resolvesStarted' = resolvesStarted + 1
    /\ orsApiKey' = TRUE
    /\ geoCache' = Null
    /\ apiKeyModal' = FALSE
    /\ locationStatus' = "loading"
    /\ pending' = Append(pending, Resolve("apikey", "getDistances", TRUE))
    /\ UNCHANGED <<staticDistancesData, homeLocation, distancesData,
                   userLocation, clock, initPhase, lastResolve>>
    /\ geoQueries' = geoQueries + 1
    /\ UNCHANGED timeVars
    /\ UNCHANGED layoutVars
    /\ UNCHANGED filterVars

\* the modal's close and cancel buttons, and a click on its overlay
CloseApiKeyModal ==
    /\ apiKeyModal
    /\ apiKeyModal' = FALSE
    /\ UNCHANGED <<staticDistancesData, homeLocation, distancesData,
                   locationStatus, userLocation, geoCache, orsApiKey, clock,
                   pending, initPhase, resolvesStarted, lastResolve>>
    /\ UNCHANGED geoQueries
    /\ UNCHANGED timeVars
    /\ UNCHANGED layoutVars
    /\ UNCHANGED filterVars

NextGeo ==
    \/ LoadDistancesData
    \/ CheckLocationUnavailable
    \/ CheckLocationAtHome
    \/ CheckLocationAway
    \/ LoadDynamicDistancesDone
    \/ RefreshLocation
    \/ ShowApiKeyModal
    \/ SaveApiKey
    \/ CloseApiKeyModal

SpecGeo == InitGeo /\ [][NextGeo]_vars

\* every geolocation query is answered: the browser calls back with a
\* position or an error, at the latest when the query's timeout of ten
\* seconds has passed; the fetch of the static table is answered too
GeoQueriesAnswered ==
    /\ WF_vars(LoadDistancesData)
    /\ WF_vars(CheckLocationUnavailable \/ CheckLocationAtHome
                  \/ CheckLocationAway)
    /\ WF_vars(LoadDynamicDistancesDone)

SpecGeoLive == SpecGeo /\ GeoQueriesAnswered

----------------------------------------------------------------------------
(* ScheduleFilterPipeline: applyFilters, groupDataByGym,                    *)
(* getSortedGymsByDistance and getDistanceInfo.                            *)
(*                                                                         *)
(* Facility, activity and category names are TLA+ strings; Spell gives the *)
(* characters of a name where the code looks inside it.                    *)

UpperLetters ==
    <<"A", "B", "C", "D", "E", "F", "G", "H", "I", "J", "K", "L", "M",
      "N", "O", "P", "Q", "R", "S", "T", "U", "V", "W", "X", "Y", "Z">>

LowerLetters ==
    <<"a", "b", "c", "d", "e", "f", "g", "h", "i", "j", "k", "l", "m",
      "n", "o", "p", "q", "r", "s", "t", "u", "v", "w", "x", "y", "z">>

\* the order of the UTF-16 code units of the characters in use
CodeOrder == <<" ">> \o UpperLetters \o LowerLetters

IndexIn(seq, c) == CHOOSE i \in DOMAIN seq : seq[i] = c

CharCode(c) == IndexIn(CodeOrder, c)

\* String.prototype.toLowerCase
toLowerCase(s) ==
    [i \in DOMAIN s |->
        IF \E k \in DOMAIN UpperLetters : UpperLetters[k] = s[i]
        THEN LowerLetters[IndexIn(UpperLetters, s[i])]
        ELSE s[i]]

\* String.prototype.includes
includes(hay, needle) ==
    \E i \in 0..(Len(hay) - Len(needle)) :
        SubSeq(hay, i + 1, i + Len(needle)) = needle

\* String.prototype.trim
RECURSIVE trim(_)
trim(s) ==
    IF s = <<>> THEN s
    ELSE IF IsSpace(s[1]) THEN trim(Tail(s))
    ELSE IF IsSpace(s[Len(s)]) THEN trim(SubSeq(s, 1, Len(s) - 1))
    ELSE s

\* the offset of the first occurrence of sub in s
FirstIndexOf(s, sub) ==
    CHOOSE i \in 0..(Len(s) - Len(sub)) :
        /\ SubSeq(s, i + 1, i + Len(sub)) = sub
        /\ \A j \in 0..(i - 1) : SubSeq(s, j + 1, j + Len(sub)) # sub

\* String.prototype.replace(sub, ''): the first occurrence is removed
RemoveFirst(s, sub) ==
    IF includes(s, sub)
    THEN SubSeq(s, 1, FirstIndexOf(s, sub))
         \o SubSeq(s, FirstIndexOf(s, sub) + Len(sub) + 1, Len(s))
    ELSE s

\* a < b by code units: the default order of Array.prototype.sort
RECURSIVE StringLess(_, _)
StringLess(a, b) ==
    IF b = <<>> THEN FALSE
    ELSE IF a = <<>> THEN TRUE
    ELSE IF a[1] = b[1] THEN StringLess(Tail(a), Tail(b))
    ELSE CharCode(a[1]) < CharCode(b[1])

GymNames == {"Ashland", "Glenarm", "Washington Park", "Unknown"}

ClassNames == {"Yoga", "Lap Swim", "Open Gym"}

CategoryNames == {"", "Fitness", "Aquatics"}

AllNames == GymNames \cup ClassNames \cup CategoryNames

SpellOf(n) ==
    CASE n = "Ashland" -> <<"A", "s", "h", "l", "a", "n", "d">>
      [] n = "Glenarm" -> <<"G", "l", "e", "n", "a", "r", "m">>
      [] n = "Washington Park" ->
             <<"W", "a", "s", "h", "i", "n", "g", "t", "o", "n", " ",
               "P", "a", "r", "k">>
      [] n = "Unknown" -> <<"U", "n", "k", "n", "o", "w", "n">>
      [] n = "Yoga" -> <<"Y", "o", "g", "a">>
      [] n = "Lap Swim" -> <<"L", "a", "p", " ", "S", "w", "i", "m">>
      [] n = "Open Gym" -> <<"O", "p", "e", "n", " ", "G", "y", "m">>
      [] n = "Fitness" -> <<"F", "i", "t", "n", "e", "s", "s">>
      [] n = "Aquatics" -> <<"A", "q", "u", "a", "t", "i", "c", "s">>
      [] n = "" -> <<>>

Spell == [n \in AllNames |-> SpellOf(n)]

LowerSpell == [n \in AllNames |-> toLowerCase(SpellOf(n))]

SuffixRecreationCenter ==
    <<" ", "R", "e", "c", "r", "e", "a", "t", "i", "o", "n", " ",
      "C", "e", "n", "t", "e", "r">>

\* the values of Infinity the code compares with: larger than any number of
\* minutes and any number of facilities
Infinity == 1000000

\* getDistanceInfo's test of one center against a facility name
NameMatches(centerName, gymName) ==
    \/ includes(toLowerCase(RemoveFirst(SpellOf(centerName),
                                        SuffixRecreationCenter)),
                toLowerCase(SpellOf(gymName)))
    \/ includes(toLowerCase(SpellOf(gymName)),
                toLowerCase(RemoveFirst(SpellOf(centerName),
                                        SuffixRecreationCenter)))

NameMatchTable ==
    [c \in RecCenterNames |-> [g \in GymNames |-> NameMatches(c, g)]]

HasCenters(distances) ==
    distances # Null /\ "centers" \in DOMAIN distances

FirstOf(S) == CHOOSE i \in S : \A j \in S : i <= j

\* getDistanceInfo: the first center whose name matches, or Null
getDistanceInfo(gymName, distances) ==
    IF ~HasCenters(distances) THEN Null
    ELSE IF \A i \in DOMAIN distances.centers :
               ~NameMatchTable[distances.centers[i].name][gymName]
    THEN Null
    ELSE distances.centers[
             FirstOf({i \in DOMAIN distances.centers :
                         NameMatchTable[distances.centers[i].name][gymName]})]

\* value || Infinity
OrInfinity(value) == IF value = 0 THEN Infinity ELSE value

\* the sortValue getSortedGymsByDistance gives a facility
SortValue(info, sortType) ==
    IF info = Null THEN Infinity
    ELSE CASE sortType = "driving" -> OrInfinity(info.driving_minutes)
           [] sortType = "biking" -> OrInfinity(info.biking_minutes)
           [] sortType = "walking" -> OrInfinity(info.walking_minutes)
           [] OTHER -> Infinity

\* the place of a keyed element in a list already sorted by key: after the
\* elements whose key is no larger (Array.prototype.sort is stable)
InsertKeyed(sorted, g) ==
    InsertAfter(sorted, g,
        LastOf({i \in 1..Len(sorted) : sorted[i].sortValue <= g.sortValue}))

RECURSIVE SortKeyed(_)
SortKeyed(gs) ==
    IF gs = <<>> THEN <<>>
    ELSE InsertKeyed(SortKeyed(SubSeq(gs, 1, Len(gs) - 1)), gs[Len(gs)])

NamesOf(gs) == [i \in DOMAIN gs |-> gs[i].name]

\* the number of the given names that sort before name
NameRank(name, names) ==
    Cardinality({i \in DOMAIN names : StringLess(Spell[names[i]], Spell[name])})

\* getSortedGymsByDistance
getSortedGymsByDistance(gymNames, sortType, distances) ==
    IF ~HasCenters(distances) \/ sortType = "name"
    THEN NamesOf(SortKeyed([i \in DOMAIN gymNames |->
                               [name |-> gymNames[i],
                                sortValue |-> NameRank(gymNames[i], gymNames)]]))
    ELSE NamesOf(SortKeyed([i \in DOMAIN gymNames |->
                               [name |-> gymNames[i],
                                sortValue |->
                                    SortValue(getDistanceInfo(gymNames[i], distances),
                                              sortType)]]))

\* Object.keys(gymsMap): the facilities of the events, by first appearance
RECURSIVE KeysInOrder(_)
KeysInOrder(data) ==
    IF data = <<>> THEN <<>>
    ELSE IF \E i \in 1..(Len(data) - 1) : data[i].gym = data[Len(data)].gym
    THEN KeysInOrder(SubSeq(data, 1, Len(data) - 1))
    ELSE Append(KeysInOrder(SubSeq(data, 1, Len(data) - 1)),
                data[Len(data)].gym)

\* limitValue === 'all' ? Infinity : parseInt(limitValue, 10)
LimitOf(limitValue) ==
    IF limitValue = "all" THEN Infinity ELSE parseInt(<<limitValue>>)

\* a variant that collects the events of a facility newest first
ItemsOfGymNewestFirst(data, g) ==
    [k \in 1..Len(SelectSeq(data, LAMBDA d : d.gym = g)) |->
        SelectSeq(data, LAMBDA d : d.gym = g)[
            Len(SelectSeq(data, LAMBDA d : d.gym = g)) + 1 - k]]

\* gymsMap[g]: the events of facility g, in the order of data
ItemsOfGym(data, g) == SelectSeq(data, LAMBDA d : d.gym = g)

GroupsOf(data, gymNames) ==
    [i \in DOMAIN gymNames |->
        [gym |-> gymNames[i], items |-> ItemsOfGym(data, gymNames[i])]]

SliceLimitAlways(gymNames, skipLimit, limit) ==
    IF limit < Len(gymNames) THEN SubSeq(gymNames, 1, limit) ELSE gymNames

\* gymNames.slice(0, limit) unless facilities were selected by hand
SliceLimit(gymNames, skipLimit, limit) ==
    IF ~skipLimit /\ limit < Len(gymNames)
    THEN SubSeq(gymNames, 1, limit)
    ELSE gymNames

\* groupDataByGym
groupDataByGym(data, skipLimit, sortType, limitValue, distances) ==
    GroupsOf(data,
             SliceLimit(getSortedGymsByDistance(KeysInOrder(data), sortType,
                                                distances),
                        skipLimit, LimitOf(limitValue)))

\* the test of the search filter of applyFilters
MatchesSearch(d, searchQuery) ==
    \/ includes(LowerSpell[d.gym], searchQuery)
    \/ includes(LowerSpell[d.className], searchQuery)
    \/ includes(LowerSpell[d.category], searchQuery)

KeepNotCancelled(data, hide) ==
    IF hide THEN SelectSeq(data, LAMBDA d : ~d.cancelled) ELSE data

KeepSelectedGyms(data, gyms) ==
    IF gyms # {} THEN SelectSeq(data, LAMBDA d : d.gym \in gyms) ELSE data

KeepSelectedClasses(data, classes) ==
    IF classes # {}
    THEN SelectSeq(data, LAMBDA d : d.className \in classes)
    ELSE data

KeepSearched(data, searchQuery) ==
    IF searchQuery # <<>>
    THEN SelectSeq(data, LAMBDA d : MatchesSearch(d, searchQuery))
    ELSE data

SearchQueryUntrimmed(text) == toLowerCase(text)

\* searchInput.value.trim().toLowerCase()
SearchQuery(text) == toLowerCase(trim(text))

\* the filtered events of applyFilters
FilterData(data, hide, gyms, classes, text) ==
    KeepSearched(
        KeepSelectedClasses(
            KeepSelectedGyms(KeepNotCancelled(data, hide), gyms),
            classes),
        SearchQuery(text))

Showing(filtered) == [kind |-> "showing", count |-> Len(filtered)]

\* what applyFilters hands to renderCalendar and to the status line
applyFilters(data, hide, gyms, classes, text, sortType, limitValue, distances) ==
    [parsed |-> groupDataByGym(FilterData(data, hide, gyms, classes, text),
                               gyms # {}, sortType, limitValue, distances),
     status |-> Showing(FilterData(data, hide, gyms, classes, text))]

----------------------------------------------------------------------------
(* Specification of the filters of a loaded day *)

Ev(gym, className, category, cancelled) ==
    [gym |-> gym, className |-> className, category |-> category,
     cancelled |-> cancelled]

\* the events of the day files of the week
DayFiles ==
    << <<Ev("Unknown", "Open Gym", "", FALSE),
         Ev("Washington Park", "Lap Swim", "Aquatics", FALSE),
         Ev("Glenarm", "Yoga", "Fitness", TRUE),
         Ev("Ashland", "Yoga", "Fitness", FALSE),
         Ev("Ashland", "Lap Swim", "Aquatics", TRUE),
         Ev("Glenarm", "Open Gym", "", FALSE)>>,
       <<Ev("Washington Park", "Yoga", "Fitness", FALSE),
         Ev("Ashland", "Open Gym", "", FALSE)>>,
       <<>> >>

\* data/week_manifest.json: the days of the week, by their index
WeekManifest == [kind |-> "week", days |-> DOMAIN DayFiles]

\* allGyms and allClasses of parseJsonSchedule, the items of the dropdowns
allGyms == {allData[i].gym : i \in DOMAIN allData}

allClasses == {allData[i].className : i \in DOMAIN allData}

\* values typed into the search input
SearchTexts ==
    {<<>>, <<" ">>, <<"A", "S", "H">>, <<" ", "f", "i", "t", " ">>}

SortTypes == {"name", "driving", "biking", "walking"}

GymLimits == {"2", "all"}

\* the distance data in use: none, or the estimates computed at Ashland
FilterDistances == {Null, calculateAllDistances(Pos(53), 1)}

InitFilter ==
    /\ weekManifest = WeekManifest
    /\ currentDayIndex \in DOMAIN DayFiles
    /\ allData = DayFiles[currentDayIndex]
    /\ shownDay = currentDayIndex
    /\ dayFetches = <<>>
    /\ selectedGyms = {}
    /\ selectedClasses = {}
    /\ hideCancelled = TRUE
    /\ searchText = <<>>
    /\ distanceSort \in SortTypes
    /\ gymLimit \in GymLimits
    /\ distancesData \in FilterDistances
    /\ parsed = applyFilters(allData, TRUE, {}, {}, <<>>, distanceSort,
                             gymLimit, distancesData).parsed
    /\ statusText = applyFilters(allData, TRUE, {}, {}, <<>>, distanceSort,
                                 gymLimit, distancesData).status
    /\ IdleGeoState
    /\ IdleTime
    /\ IdleLayout

\* a variant that groups what is on display in place of the day's events
ApplyFiltersWithDisplayed(hide, gyms, classes, text, sortType, limitValue) ==
    /\ hideCancelled' = hide
    /\ selectedGyms' = gyms
    /\ selectedClasses' = classes
    /\ searchText' = text
    /\ distanceSort' = sortType
    /\ gymLimit' = limitValue
    /\ \E out \in {applyFilters(allData, hide, gyms, classes, text, sortType,
                                 limitValue, distancesData)} :
          /\ parsed' = IF parsed = <<>> THEN out.parsed
                        ELSE SubSeq(parsed, 1, Len(parsed) - 1)
          /\ statusText' = out.status
    /\ UNCHANGED <<allData, weekManifest, currentDayIndex, dayFetches,
                   shownDay>>
    /\ UNCHANGED timeVars
    /\ UNCHANGED geoVars

\* the end of every filter handler: the new filter state and applyFilters
ApplyFiltersWith(hide, gyms, classes, text, sortType, limitValue) ==
    /\ hideCancelled' = hide
    /\ selectedGyms' = gyms
    /\ selectedClasses' = classes
    /\ searchText' = text
    /\ distanceSort' = sortType
    /\ gymLimit' = limitValue
    /\ \E out \in {applyFilters(allData, hide, gyms, classes, text, sortType,
                                 limitValue, distancesData)} :
          /\ parsed' = out.parsed
          /\ statusText' = out.status
    /\ UNCHANGED <<allData, weekManifest, currentDayIndex, dayFetches,
                   shownDay>>
    /\ UNCHANGED timeVars
    /\ UNCHANGED geoVars

\* a click on an item of the facility dropdown
ToggleGym ==
    /\ \E item \in allGyms :
          IF item \in selectedGyms
          THEN ApplyFiltersWith(hideCancelled, selectedGyms \ {item},
                                selectedClasses, searchText, distanceSort,
                                gymLimit)
          ELSE /\ Cardinality(selectedGyms) < MaxSelected
               /\ ApplyFiltersWith(hideCancelled, selectedGyms \cup {item},
                                   selectedClasses, searchText, distanceSort,
                                   gymLimit)
    /\ UNCHANGED layoutVars

\* a click on an item of the activity dropdown
ToggleClass ==
    /\ \E item \in allClasses :
          IF item \in selectedClasses
          THEN ApplyFiltersWith(hideCancelled, selectedGyms,
                                selectedClasses \ {item}, searchText,
                                distanceSort, gymLimit)
          ELSE /\ Cardinality(selectedClasses) < MaxSelected
               /\ ApplyFiltersWith(hideCancelled, selectedGyms,
                                   selectedClasses \cup {item}, searchText,
                                   distanceSort, gymLimit)
    /\ UNCHANGED layoutVars

ResetGymFilter ==
    /\ selectedGyms # {}
    /\ ApplyFiltersWith(hideCancelled, {}, selectedClasses, searchText,
                        distanceSort, gymLimit)
    /\ UNCHANGED layoutVars

ResetClassFilter ==
    /\ selectedClasses # {}
    /\ ApplyFiltersWith(hideCancelled, selectedGyms, {}, searchText,
                        distanceSort, gymLimit)
    /\ UNCHANGED layoutVars

\* typing in the search input
SearchInput ==
    /\ \E text \in SearchTexts \ {searchText} :
          ApplyFiltersWith(hideCancelled, selectedGyms, selectedClasses, text,
                           distanceSort, gymLimit)
    /\ UNCHANGED layoutVars

ResetSearch ==
    /\ searchText # <<>>
    /\ ApplyFiltersWith(hideCancelled, selectedGyms, selectedClasses, <<>>,
                        distanceSort, gymLimit)
    /\ UNCHANGED layoutVars

HideCancelledChange ==
    /\ ApplyFiltersWith(~hideCancelled, selectedGyms, selectedClasses,
                        searchText, distanceSort, gymLimit)
    /\ UNCHANGED layoutVars

DistanceSortChange ==
    /\ \E sortType \in SortTypes \ {distanceSort} :
          ApplyFiltersWith(hideCancelled, selectedGyms, selectedClasses,
                           searchText, sortType, gymLimit)
    /\ UNCHANGED layoutVars

GymLimitChange ==
    /\ \E limitValue \in GymLimits \ {gymLimit} :
          ApplyFiltersWith(hideCancelled, selectedGyms, selectedClasses,
                           searchText, distanceSort, limitValue)
    /\ UNCHANGED layoutVars

\* a change of the start-hour select: applyFilters with the filters as they
\* are
HourRangeChange ==
    /\ startHourSel' \in {5, 6} \ {startHourSel}
    /\ ApplyFiltersWith(hideCancelled, selectedGyms, selectedClasses,
                        searchText, distanceSort, gymLimit)
    /\ UNCHANGED <<items, endHourSel, sortedItems, eventPositions, gridEvents,
                   renderThrew, layoutDone>>

NextFilter ==
    \/ ToggleGym
    \/ ToggleClass
    \/ ResetGymFilter
    \/ ResetClassFilter
    \/ SearchInput
    \/ ResetSearch
    \/ HideCancelledChange
    \/ DistanceSortChange
    \/ GymLimitChange
    \/ HourRangeChange

SpecFilter == InitFilter /\ [][NextFilter]_vars

----------------------------------------------------------------------------
(* Specification of the loading of the week and its days (single-week     *)
(* mode: there is no master manifest)                                      *)

InitDay ==
    /\ allData = <<>>
    /\ selectedGyms = {}
    /\ selectedClasses = {}
    /\ hideCancelled = TRUE
    /\ searchText = <<>>
    /\ distanceSort \in {"name", "biking"}
    /\ gymLimit = "all"
    /\ parsed = <<>>
    /\ statusText = [kind |-> "loading schedule"]
    /\ weekManifest = Null
    /\ currentDayIndex = 1
    /\ dayFetches = <<>>
    /\ shownDay = 0
    /\ IdleGeo
    /\ IdleTime
    /\ IdleLayout

FilterStateUnchanged ==
    UNCHANGED <<selectedGyms, selectedClasses, hideCancelled, searchText,
                distanceSort, gymLimit>>

\* loadDayData up to its fetch
StartDayFetch(day) ==
    /\ statusText' = [kind |-> "loading"]
    /\ dayFetches' = Append(dayFetches, day)

\* loadWeekManifest: the fetch of week_manifest.json succeeds; today's tab,
\* if the week has one, becomes the current tab and its day is loaded
WeekManifestLoaded ==
    /\ weekManifest = Null
    /\ statusText.kind = "loading schedule"
    /\ weekManifest' = WeekManifest
    /\ \E today \in WeekManifest.days :
          /\ currentDayIndex' = today
          /\ StartDayFetch(today)
    /\ FilterStateUnchanged
    /\ UNCHANGED <<allData, parsed, shownDay>>
    /\ UNCHANGED timeVars
    /\ UNCHANGED layoutVars
    /\ UNCHANGED geoVars

\* loadWeekManifest, catch: the fetch fails or answers a non-success status
WeekManifestFailed ==
    /\ weekManifest = Null
    /\ statusText.kind = "loading schedule"
    /\ statusText' = [kind |-> "error", of |-> "week_manifest.json"]
    /\ FilterStateUnchanged
    /\ UNCHANGED <<allData, parsed, weekManifest, currentDayIndex,
                   dayFetches, shownDay>>
    /\ UNCHANGED timeVars
    /\ UNCHANGED layoutVars
    /\ UNCHANGED geoVars

\* a click on a day tab
DayTabClick ==
    /\ weekManifest # Null
    /\ Len(dayFetches) < MaxDayFetches
    /\ \E index \in weekManifest.days :
          /\ currentDayIndex' = index
          /\ StartDayFetch(index)
    /\ FilterStateUnchanged
    /\ UNCHANGED <<allData, parsed, weekManifest, shownDay>>
    /\ UNCHANGED timeVars
    /\ UNCHANGED layoutVars
    /\ UNCHANGED geoVars

\* loadDayData after a successful fetch: parseJsonSchedule, setupFilters,
\* applyFilters
DayDataLoaded ==
    /\ \E i \in DOMAIN dayFetches :
          /\ allData' = DayFiles[dayFetches[i]]
          /\ shownDay' = dayFetches[i]
          /\ dayFetches' = RemoveAt(dayFetches, i)
          /\ \E out \in {applyFilters(DayFiles[dayFetches[i]], hideCancelled,
                                       selectedGyms, selectedClasses,
                                       searchText, distanceSort, gymLimit,
                                       distancesData)} :
                /\ parsed' = out.parsed
                /\ statusText' = out.status
    /\ FilterStateUnchanged
    /\ UNCHANGED <<weekManifest, currentDayIndex>>
    /\ UNCHANGED timeVars
    /\ UNCHANGED layoutVars
    /\ UNCHANGED geoVars

\* loadDayData, catch: the fetch fails or answers a non-success status
DayDataFailed ==
    /\ \E i \in DOMAIN dayFetches :
          /\ statusText' = [kind |-> "error", of |-> dayFetches[i]]
          /\ dayFetches' = RemoveAt(dayFetches, i)
    /\ FilterStateUnchanged
    /\ UNCHANGED <<allData, parsed, weekManifest, currentDayIndex, shownDay>>
    /\ UNCHANGED timeVars
    /\ UNCHANGED layoutVars
    /\ UNCHANGED geoVars

NextDay ==
    \/ WeekManifestLoaded
    \/ WeekManifestFailed
    \/ DayTabClick
    \/ DayDataLoaded
    \/ DayDataFailed

SpecDay == InitDay /\ [][NextDay]_vars

----------------------------------------------------------------------------
(* Specification of the dropdown selections across day loads *)

\* the days are loaded as above; between the loads the user ticks and
\* unticks items of the two dropdowns and resets them
NextSelect ==
    \/ NextDay
    \/ ToggleGym
    \/ ToggleClass
    \/ ResetGymFilter
    \/ ResetClassFilter

SpecSelect == InitDay /\ [][NextSelect]_vars

----------------------------------------------------------------------------
(* Properties of the time normalizer *)

\* C5: for every well-formed time h:m am/pm (h in 1..12, m in 0..59), every
\* formatting variant (bare hour, colon form, upper case, embedded space,
\* periods) is converted by timeToMinutes to ((h mod 12) + (12 if pm)) * 60 + m.
C5_TimeMatchesReference ==
    (timeDone /\ timeSrc.kind = "wellformed") =>
        timeResult = ((timeSrc.h % 12) + (IF timeSrc.pm THEN 12 ELSE 0)) * 60 + timeSrc.m

\* "6 P.M." has been converted, to 1080
C5_Witness ==
    /\ timeDone
    /\ timeInput = <<"6", " ", "P", ".", "M", ".">>
    /\ timeResult = 1080

\* C6: for every input string the value returned by timeToMinutes is a
\* minute of the day, in 0..1439.
C6_ResultIsMinuteOfDay ==
    timeDone => timeResult \in 0..1439

----------------------------------------------------------------------------
(* Properties of the layout *)

SortedMinutes == ItemMinutes(sortedItems)

\* the visible window of the render
WindowStart == StartHour(startHourSel)
WindowEnd == EndHour(endHourSel)

IsVisible(i) ==
    ~OutsideVisibleRange(SortedMinutes[i].startMins, SortedMinutes[i].endMins,
                         WindowStart, WindowEnd)

OverlappingPairs ==
    {p \in (1..Len(sortedItems)) \X (1..Len(sortedItems)) :
        p[1] # p[2] /\ Overlaps(SortedMinutes[p[1]], SortedMinutes[p[2]])}

\* C1 (as claimed): after the sort and calculateEventColumns, every pair of
\* distinct events whose intervals overlap has different columns, for every
\* event list and every visible hour window.
C1_OverlappingColumnsDiffer ==
    layoutDone =>
        \A p \in OverlappingPairs :
            eventPositions[p[1]].column # eventPositions[p[2]].column

\* C1 (amended): every pair of distinct overlapping events that are both inside
\* the visible hour window has different columns.
C1_VisibleOverlappingColumnsDiffer ==
    layoutDone =>
        \A p \in OverlappingPairs :
            (IsVisible(p[1]) /\ IsVisible(p[2])) =>
                eventPositions[p[1]].column # eventPositions[p[2]].column

\* two visible overlapping events have been laid out next to an event outside
\* the window
C1_Witness ==
    /\ layoutDone
    /\ \E p \in OverlappingPairs :
          /\ IsVisible(p[1]) /\ IsVisible(p[2])
          /\ eventPositions[p[1]].column # eventPositions[p[2]].column
    /\ \E i \in 1..Len(sortedItems) : ~IsVisible(i)

\* C2: after calculateEventColumns, any two events whose intervals directly
\* overlap have the same totalColumns.
C2_OverlappingShareTotalColumns ==
    layoutDone =>
        \A p \in OverlappingPairs :
            eventPositions[p[1]].totalColumns = eventPositions[p[2]].totalColumns

\* the events connected to the events of S by chains of pairwise overlap
RECURSIVE OverlapClosure(_)
OverlapClosure(S) ==
    LET more == S \cup {p[2] : p \in {q \in OverlappingPairs : q[1] \in S}}
    IN  IF more = S THEN S ELSE OverlapClosure(more)

\* the largest number of events of S in progress at the same minute; the
\* maximum is reached at the start of one of them
PeakSimultaneous(S) ==
    LET counts == {Cardinality({e \in S :
                        /\ SortedMinutes[e].startMins <= SortedMinutes[t].startMins
                        /\ SortedMinutes[t].startMins < SortedMinutes[e].endMins}) :
                   t \in S}
    IN  CHOOSE c \in counts : \A d \in counts : d <= c

\* every event is inside the window and ends after it starts
AllRegular ==
    \A i \in 1..Len(sortedItems) :
        IsVisible(i) /\ SortedMinutes[i].endMins > SortedMinutes[i].startMins

\* C3: all events of a maximal overlap-connected cluster have the same
\* totalColumns, and it equals the cluster's peak number of simultaneous
\* events (stated for lists of visible events with end > start, where
\* "in progress" is unambiguous).
C3_ClusterConsistency ==
    (layoutDone /\ AllRegular) =>
        \A i \in 1..Len(sortedItems) :
            \A j \in OverlapClosure({i}) :
                /\ eventPositions[j].totalColumns = eventPositions[i].totalColumns
                /\ eventPositions[j].totalColumns = PeakSimultaneous(OverlapClosure({i}))

ScenarioRendered ==
    /\ layoutDone
    /\ sortedItems = <<EventA, EventB, EventC>>
    /\ WindowStart = 5
    /\ WindowEnd = 22

\* C4 (as claimed): for A 9:00am-10:00am, B 9:30am-10:30am, C 10:15am-11:00am,
\* A and B get totalColumns 2 with columns 0 and 1, and C gets column 0 with
\* totalColumns 1.
C4_ScenarioAsClaimed ==
    ScenarioRendered =>
        eventPositions = << [column |-> 0, totalColumns |-> 2],
                            [column |-> 1, totalColumns |-> 2],
                            [column |-> 0, totalColumns |-> 1] >>

\* C4 (amended): C overlaps B (10:15am < 10:30am), so C gets column 0 with
\* totalColumns 2; A and B get totalColumns 2 with columns 0 and 1.
C4_ScenarioLayout ==
    ScenarioRendered =>
        eventPositions = << [column |-> 0, totalColumns |-> 2],
                            [column |-> 1, totalColumns |-> 2],
                            [column |-> 0, totalColumns |-> 2] >>

\* the scenario has been rendered from a source order other than time order
C4_Witness ==
    /\ ScenarioRendered
    /\ items = <<EventC, EventA, EventB>>
    /\ eventPositions[3].column = 0

\* C7: a malformed or missing event time is never fatal: no exception leaves
\* renderCalendar, every event has a position and every visible event is
\* rendered.
C7_BadTimeNeverFatal ==
    layoutDone =>
        /\ ~renderThrew
        /\ Len(eventPositions) = Len(items)
        /\ gridEvents = SetToSortedSeq({i \in 1..Len(sortedItems) : IsVisible(i)})

\* the events of sortedItems that the first pass skips
OutsideIndices ==
    (1..Len(sortedItems)) \ VisibleIndices(sortedItems, StartHour(startHourSel),
                                           EndHour(endHourSel))

\* the visible events of sortedItems, in their order
VisibleItems ==
    SelectSeq(sortedItems,
        LAMBDA e : ~OutsideVisibleRange(timeToMinutesMemo(e.start),
                                        timeToMinutesMemo(e.end),
                                        StartHour(startHourSel),
                                        EndHour(endHourSel)))

\* the positions of the visible events of sortedItems, in their order
VisiblePositions ==
    [k \in 1..Cardinality(VisibleIndices(sortedItems, StartHour(startHourSel),
                                         EndHour(endHourSel))) |->
        eventPositions[SetToSortedSeq(VisibleIndices(sortedItems,
                           StartHour(startHourSel), EndHour(endHourSel)))[k]]]

\* every event outside the visible window ends with column 0 of 1
OutsideKeepDefaultPosition ==
    \A i \in OutsideIndices :
        eventPositions[i] = [column |-> 0, totalColumns |-> 1]

\* the visible events are laid out as if the events outside the window were
\* not in the list
OutsideLeaveOthersAlone ==
    VisiblePositions = calculateEventColumns(VisibleItems, StartHour(startHourSel),
                                             EndHour(endHourSel))

ZeroOrNegativeInWindow(i) ==
    /\ ItemMinutes(sortedItems)[i].endMins <= ItemMinutes(sortedItems)[i].startMins
    /\ ItemMinutes(sortedItems)[i].startMins >= StartHour(startHourSel) * 60
    /\ ItemMinutes(sortedItems)[i].startMins < EndHour(endHourSel) * 60

\* the columns of the visible events before i that have not ended when i
\* starts
ColumnsInUseAt(i) ==
    {eventPositions[j].column :
        j \in {v \in VisibleIndices(sortedItems, StartHour(startHourSel),
                                     EndHour(endHourSel)) :
                  /\ v < i
                  /\ ItemMinutes(sortedItems)[v].endMins
                        > ItemMinutes(sortedItems)[i].startMins}}

\* C23: when rendering has completed, every event with end <= start whose
\* start lies inside the visible window is rendered, in the lowest column
\* that no earlier event still in progress occupies.
C23_ZeroDurationEventIsPlaced ==
    (layoutDone /\ ~renderThrew) =>
        \A i \in DOMAIN sortedItems :
            ZeroOrNegativeInWindow(i) =>
                /\ \E k \in DOMAIN gridEvents : gridEvents[k] = i
                /\ eventPositions[i].column = FirstUnused(ColumnsInUseAt(i))

\* C24: calculateEventColumns returns one position for every event of the
\* list it is given, and every position has 0 <= column < totalColumns (so
\* totalColumns >= 1), whatever the events and the visible window.
C24_OnePositionPerEvent ==
    layoutDone =>
        /\ Len(eventPositions) = Len(sortedItems)
        /\ Len(sortedItems) = Len(items)
        /\ \A i \in DOMAIN eventPositions :
               /\ eventPositions[i].column \in Nat
               /\ eventPositions[i].totalColumns \in Nat
               /\ 0 <= eventPositions[i].column
               /\ eventPositions[i].column < eventPositions[i].totalColumns
               /\ eventPositions[i].totalColumns >= 1

\* five events laid out in the window 6am-8am, one of them outside the
\* window and one in the third of three columns
C24_Witness ==
    /\ layoutDone
    /\ startHourSel = 6
    /\ endHourSel = 8
    /\ Len(eventPositions) = 5
    /\ OutsideIndices # {}
    /\ \E i \in DOMAIN eventPositions :
          eventPositions[i] = [column |-> 2, totalColumns |-> 3]

----------------------------------------------------------------------------
(* Properties of the distance resolution *)

\* the last completed resolution had the user's position
PositionAvailable == lastResolve # Null /\ lastResolve.pos # Null

\* the last completed resolution had no position
PositionUnavailable == lastResolve # Null /\ lastResolve.pos = Null

\* C8: whenever a distance resolution (the initial load, a refresh or an
\* API-key change) completes with the position within 0.1 mile of the static
\* table's origin and the static table loaded, the distance data in use
\* afterwards is the static table, whatever the GeoCache holds.
C8_StaticPrecedence ==
    (/\ PositionAvailable
     /\ staticDistancesData # Null
     /\ haversineDistance(lastResolve.pos, HomePos) <= HomeThreshold)
    => lastResolve.inUse = StaticData

\* the last completed resolution had the position and found a GeoCache entry
ResolvedWithCache ==
    /\ PositionAvailable
    /\ lastResolve.via = "getDistances"
    /\ lastResolve.cacheBefore # Null

CacheDistance ==
    haversineDistance(lastResolve.pos, lastResolve.cacheBefore.origin)

ServedFromCache ==
    /\ lastResolve.source = "cache"
    /\ lastResolve.data = lastResolve.cacheBefore
    /\ lastResolve.cacheAfter = lastResolve.cacheBefore

Recomputed ==
    /\ lastResolve.source = "calculated"
    /\ lastResolve.data # lastResolve.cacheBefore
    /\ lastResolve.data.origin = lastResolve.pos
    /\ lastResolve.cacheAfter = lastResolve.data

\* C9 as stated: every resolve with an available position and a GeoCache
\* entry whose origin is at most 0.25 mile from the position returns the
\* cached records unchanged and leaves the cache alone, and one further away
\* recomputes.
C9_CacheMovementThreshold ==
    ResolvedWithCache =>
        IF CacheDistance <= LOCATION_THRESHOLD_MILES
        THEN ServedFromCache
        ELSE Recomputed

\* C9: a resolve that is not forced, with an available position and a
\* GeoCache entry whose origin is at most 0.25 mile from the position,
\* returns the cached records unchanged and does not rewrite the cache; one
\* further away, and every forced resolve (refresh, API-key change),
\* recomputes from the position and overwrites the cache.
C9_UnforcedCacheMovementThreshold ==
    ResolvedWithCache =>
        IF ~lastResolve.force /\ CacheDistance <= LOCATION_THRESHOLD_MILES
        THEN ServedFromCache
        ELSE Recomputed

\* an unforced resolve exactly 0.25 mile from the cached origin was served
\* from the cache
C9_Witness ==
    /\ ResolvedWithCache
    /\ ~lastResolve.force
    /\ CacheDistance = LOCATION_THRESHOLD_MILES
    /\ ServedFromCache
    /\ distancesData = lastResolve.cacheBefore
    /\ geoCache = lastResolve.cacheBefore

CacheOrNothing ==
    IF lastResolve.cacheBefore # Null
    THEN /\ lastResolve.data = lastResolve.cacheBefore
         /\ lastResolve.source = "cache"
    ELSE /\ lastResolve.data = Null
         /\ lastResolve.source = "none"

\* C10 as stated: every resolve without a position, the initial load
\* included, yields the GeoCache entry if there is one (source cache) and
\* otherwise no data (source none).
C10_UnavailableYieldsCacheOrNothing ==
    PositionUnavailable => CacheOrNothing

\* C10: when the position is unavailable to getDistances (a refresh, an
\* API-key change, or the initial load after its own position query found
\* the user away from home), the resolve yields the GeoCache entry if there
\* is one (source cache) and otherwise no data (source none); when the
\* initial load's own position query fails, the data in use is the static
\* table (none if it is not loaded) and the status is 'denied', whatever the
\* GeoCache holds.
C10_UnavailableByStage ==
    PositionUnavailable =>
        IF lastResolve.via = "getDistances"
        THEN CacheOrNothing
        ELSE /\ lastResolve.inUse = staticDistancesData
             /\ lastResolve.status = "denied"
             /\ lastResolve.cacheAfter = lastResolve.cacheBefore

\* a refresh without a position was answered from the GeoCache
C10_Witness ==
    /\ PositionUnavailable
    /\ lastResolve.fn = "refresh"
    /\ lastResolve.cacheBefore # Null
    /\ lastResolve.source = "cache"
    /\ distancesData = lastResolve.cacheBefore
    /\ locationStatus = "cached"

\* the last completed resolution ran a fresh computation
FreshComputation == lastResolve # Null /\ lastResolve.source = "calculated"

\* C11: a fresh computation made while a routing-API key is stored issues
\* the routing API request, and its records are marked estimated only when
\* no key is stored or a request was made (and failed).
C11_KeyedComputationUsesRoutingApi ==
    FreshComputation =>
        /\ lastResolve.hasKey => lastResolve.orsRequests > 0
        /\ lastResolve.data.estimated =>
               (~lastResolve.hasKey \/ lastResolve.orsRequests > 0)

\* every facility of the table has a record, with all three modes estimated
AllCentersEstimated(data) ==
    /\ DOMAIN data.centers = DOMAIN RecCenters
    /\ data.estimated
    /\ \A c \in DOMAIN RecCenters :
          /\ data.centers[c].name = RecCenters[c]
          /\ data.centers[c].driving_minutes \in Nat
          /\ data.centers[c].biking_minutes \in Nat
          /\ data.centers[c].walking_minutes \in Nat
          /\ data.centers[c].driving_estimated
          /\ data.centers[c].biking_estimated
          /\ data.centers[c].walking_estimated

\* C12: whenever the position is available and a fresh computation runs, the
\* resolve returns data with a record for every facility of the facility
\* table, key or no key, and every record is marked estimated.
C12_FreshComputationCoversAllCenters ==
    FreshComputation =>
        /\ lastResolve.pos # Null
        /\ lastResolve.data # Null
        /\ AllCentersEstimated(lastResolve.data)
        /\ lastResolve.inUse = lastResolve.data

\* a fresh computation without a key returned estimates for every facility
C12_Witness ==
    /\ FreshComputation
    /\ ~lastResolve.hasKey
    /\ lastResolve.pos = Pos(37)
    /\ AllCentersEstimated(lastResolve.data)
    /\ lastResolve.data.centers[1].walking_minutes = 6
    /\ distancesData = lastResolve.data

\* the timestamp of the most recent fresh computation; 0 is the one of an
\* earlier session
LatestComputation == clock - 1

\* the GeoCache entry, when present, is the complete result of the most
\* recent fresh computation
CacheIsLatestComputation ==
    geoCache # Null =>
        /\ geoCache # StaticData
        /\ geoCache.kind = "calculated"
        /\ geoCache.timestamp = LatestComputation
        /\ geoCache = calculateAllDistances(geoCache.origin,
                                            geoCache.timestamp)

\* a step that writes the GeoCache is the completion of a fresh computation
\* and stores its result, whose origin is the position it used
CacheWrittenByComputation ==
    (geoCache' # geoCache /\ geoCache' # Null) =>
        /\ lastResolve'.source = "calculated"
        /\ lastResolve'.pos # Null
        /\ geoCache' = lastResolve'.data
        /\ geoCache'.origin = lastResolve'.pos

\* a step that completes a resolution answered from the static table
StaticAnswer ==
    /\ lastResolve' # Null
    /\ lastResolve'.source = "static"
    /\ pending' # pending
    /\ Len(pending') < Len(pending)

ExplicitClear ==
    /\ geoCache' = Null
    /\ \/ locationStatus' = "home"
       \/ (apiKeyModal /\ ~apiKeyModal' /\ orsApiKey')

\* a step in which getDistances recomputed from a position and stored the
\* result over the entry
RecomputedOver ==
    /\ lastResolve' # Null
    /\ lastResolve'.via = "getDistances"
    /\ lastResolve'.source = "calculated"
    /\ lastResolve'.pos # Null
    /\ lastResolve'.cacheBefore = geoCache
    /\ geoCache' = lastResolve'.data

MovedBeyondThreshold ==
    haversineDistance(lastResolve'.pos, geoCache.origin)
        > LOCATION_THRESHOLD_MILES

\* C14 as stated: the entry is served to every resolve within the movement
\* threshold, and is removed or replaced only by a recomputation caused by
\* movement beyond the threshold or by an explicit clear.
C14_OnlyMovementOrClear ==
    /\ [](ResolvedWithCache /\ CacheDistance <= LOCATION_THRESHOLD_MILES
            => ServedFromCache)
    /\ [][(geoCache # Null /\ geoCache' # geoCache) =>
             \/ ExplicitClear
             \/ (RecomputedOver /\ MovedBeyondThreshold)]_vars

\* C14: the entry has no expiry by time: an entry of any age is served to
\* every resolve that is not forced and whose position is within the
\* movement threshold, and it is removed or replaced only by a clear (the
\* initial load at home, the save of an API key) or by a recomputation,
\* which movement beyond the threshold or a forced resolve (refresh,
\* API-key change) causes.
C14_NoExpiryByTime ==
    /\ [](ResolvedWithCache /\ ~lastResolve.force
            /\ CacheDistance <= LOCATION_THRESHOLD_MILES
            => ServedFromCache)
    /\ [][(geoCache # Null /\ geoCache' # geoCache) =>
             \/ ExplicitClear
             \/ (RecomputedOver
                 /\ (MovedBeyondThreshold \/ lastResolve'.force))]_vars

\* an entry of an earlier session was served to an unforced resolve 0.01
\* mile from its origin
C14_Witness ==
    /\ ResolvedWithCache
    /\ ~lastResolve.force
    /\ lastResolve.pos = Pos(37)
    /\ lastResolve.cacheBefore.origin = Pos(36)
    /\ lastResolve.cacheBefore.timestamp = 0
    /\ ServedFromCache
    /\ geoCache = lastResolve.cacheBefore

\* a step that calls getCurrentPosition
QueryIssued == geoQueries' > geoQueries

\* the refresh button or the save of an API key
UserAction == resolvesStarted' = resolvesStarted + 1

\* the first query of the page load
PageLoad == initPhase = "fetchStatic" /\ initPhase' = "started"

\* the query of getDistances in the initial load, made once the load's own
\* query has answered with a position away from home
AfterPositionAnswered ==
    /\ userLocation' \in Positions
    /\ lastResolve' = lastResolve
    /\ \E i \in DOMAIN pending :
          /\ pending[i].stage = "check"
          /\ pending' = [pending EXCEPT ![i].stage = "getDistances"]

\* C20: a geolocation query is issued only by the page load, by the initial
\* load's continuation after a query that answered with a position, or by a
\* user action (refresh, save of an API key); the step that handles a failed
\* or timed-out query issues none, so a failure is never retried
\* automatically.
C20_NoAutomaticRetry ==
    [][QueryIssued => (UserAction \/ PageLoad \/ AfterPositionAnswered)]_vars

\* the initial load's query failed and nothing is waiting for a position
C20_Witness ==
    /\ PositionUnavailable
    /\ lastResolve.fn = "initial"
    /\ lastResolve.via = "check"
    /\ geoQueries = 1
    /\ pending = <<>>
    /\ locationStatus = "denied"

\* a GeoCache entry that is the whole result of one computation: its
\* origin, and the records of all centers computed from that origin
CompleteResult(entry) ==
    /\ entry.kind = "calculated"
    /\ entry.origin \in Positions
    /\ entry = calculateAllDistances(entry.origin, entry.timestamp)

RefreshButtonShown == locationStatus \in {"home", "granted", "cached", "denied"}

\* C26: no guard keeps a second resolve from starting while one is in flight:
\* whenever a resolve is in flight and the refresh button is on display, a
\* click on it starts a new resolve, and so does the save of an API key
\* whenever the modal is open.
C26_ResolvesMayOverlap ==
    (pending # <<>> /\ resolvesStarted < MaxResolves) =>
        /\ RefreshButtonShown => ENABLED RefreshLocation
        /\ apiKeyModal => ENABLED SaveApiKey

\* two resolves in flight at once: a refresh, and the save of an API key
\* that started a second one before the first completed
C26_Witness ==
    /\ Len(pending) = 2
    /\ pending[1].fn = "refresh"
    /\ pending[2].fn = "apikey"
    /\ locationStatus = "loading"

\* the statuses in which a resolution ends
FinalStatuses == {"home", "granted", "cached", "denied"}

\* C28: when every geolocation query is answered, a locationStatus of
\* 'loading' is always followed by one of home, granted, cached and denied,
\* and the status is 'loading' only while a resolve is in flight, on the
\* initial load, a refresh and an API-key save alike.
C28_ResolutionTerminates ==
    /\ (locationStatus = "loading") ~> (locationStatus \in FinalStatuses)
    /\ [](locationStatus = "loading" => pending # <<>>)
    /\ [](lastResolve # Null => lastResolve.status \in FinalStatuses)

\* a resolve started by the save of an API key ended without position and
\* without entry: the status went from 'loading' to 'denied'
C28_Witness ==
    /\ lastResolve # Null
    /\ lastResolve.fn = "apikey"
    /\ lastResolve.pos = Null
    /\ lastResolve.data = Null
    /\ pending = <<>>
    /\ locationStatus = "denied"

----------------------------------------------------------------------------
(* Properties of the filters *)

\* name contains text, whatever the case of the letters
ContainsIgnoringCase(name, text) ==
    includes(toLowerCase(Spell[name]), toLowerCase(text))

\* the criteria of the filters for an event and a search text
Survives(e, text) ==
    /\ ~hideCancelled \/ ~e.cancelled
    /\ selectedGyms = {} \/ e.gym \in selectedGyms
    /\ selectedClasses = {} \/ e.className \in selectedClasses
    /\ \/ text = <<>>
       \/ ContainsIgnoringCase(e.gym, text)
       \/ ContainsIgnoringCase(e.className, text)
       \/ ContainsIgnoringCase(e.category, text)

\* the events on display
ShownEvents ==
    UNION {{parsed[g].items[k] : k \in DOMAIN parsed[g].items} :
              g \in DOMAIN parsed}

ShownGyms == {parsed[g].gym : g \in DOMAIN parsed}

\* no facility group is cut off by the facility limit
NotTruncated == selectedGyms # {} \/ gymLimit = "all"

\* the filters leave exactly the events that meet the criteria for text
FilteredExactly(text) ==
    /\ statusText.kind = "showing"
    /\ statusText.count =
           Cardinality({i \in DOMAIN allData : Survives(allData[i], text)})
    /\ ShownEvents \subseteq
           {allData[i] : i \in {j \in DOMAIN allData : Survives(allData[j], text)}}
    /\ NotTruncated =>
           ShownEvents =
               {allData[i] : i \in {j \in DOMAIN allData : Survives(allData[j], text)}}
    /\ \A g \in DOMAIN parsed :
           parsed[g].items =
               SelectSeq(allData,
                         LAMBDA d : d.gym = parsed[g].gym /\ Survives(d, text))

\* C15 as stated: the events that survive applyFilters are exactly the
\* day's events that are not hidden as cancelled, are of a selected facility
\* and a selected activity (an empty selection selects all) and whose
\* facility, title or category contains searchText case-insensitively (an
\* empty searchText filters nothing).
C15_FilterResultBySearchText == FilteredExactly(searchText)

\* C15: the same, with the search text first trimmed of the white space
\* around it, so that a text of blanks only filters nothing.
C15_FilterResultByTrimmedText == FilteredExactly(trim(searchText))

\* with the text " fit " typed, cancelled events shown and Glenarm selected,
\* the one event of category Fitness at Glenarm survives
C15_Witness ==
    /\ searchText = <<" ", "f", "i", "t", " ">>
    /\ ~hideCancelled
    /\ selectedGyms = {"Glenarm"}
    /\ selectedClasses = {}
    /\ shownDay = 1
    /\ statusText = Showing(<<Ev("Glenarm", "Yoga", "Fitness", TRUE)>>)
    /\ parsed = <<[gym |-> "Glenarm",
                   items |-> <<Ev("Glenarm", "Yoga", "Fitness", TRUE)>>]>>

\* the facilities with a surviving event, in the sorted order
SortedSurvivingGyms ==
    getSortedGymsByDistance(
        KeysInOrder(SelectSeq(allData,
                              LAMBDA d : Survives(d, trim(searchText)))),
        distanceSort, distancesData)

FirstN(seq, n) == SubSeq(seq, 1, IF n < Len(seq) THEN n ELSE Len(seq))

\* C16: with no facility selected the output has at most facilityLimit
\* facility groups, the first facilityLimit of the sorted order; with
\* facilities selected nothing is cut off and every selected facility with a
\* surviving event has its group.
C16_FacilityLimit ==
    IF selectedGyms = {}
    THEN /\ Len(parsed) <= LimitOf(gymLimit)
         /\ NamesOf([g \in DOMAIN parsed |-> [name |-> parsed[g].gym]])
                = FirstN(SortedSurvivingGyms, LimitOf(gymLimit))
    ELSE /\ ShownGyms =
                {g \in selectedGyms :
                    \E i \in DOMAIN allData :
                        allData[i].gym = g
                        /\ Survives(allData[i], trim(searchText))}
         /\ Len(parsed) = Cardinality(ShownGyms)

\* three selected facilities all have their group with a limit of two
C16_Witness ==
    /\ selectedGyms = {"Ashland", "Glenarm", "Unknown"}
    /\ gymLimit = "2"
    /\ Len(parsed) = 3
    /\ ShownGyms = selectedGyms

\* the minutes of the selected mode in a center's record
MinutesOf(info, sortType) ==
    CASE sortType = "driving" -> info.driving_minutes
      [] sortType = "biking" -> info.biking_minutes
      [] sortType = "walking" -> info.walking_minutes

Resolved(gymName) == getDistanceInfo(gymName, distancesData) # Null

\* C17: sorted by driving, biking or walking with distance data loaded, the
\* facility groups are in non-decreasing order of the minutes of that mode,
\* and every facility with a resolved value, whatever the value, comes
\* before every facility whose distance is missing.
C17_DistanceOrdering ==
    (distanceSort \in {"driving", "biking", "walking"}
        /\ HasCenters(distancesData)) =>
        \A g, h \in DOMAIN parsed :
            g < h =>
                /\ Resolved(parsed[h].gym) => Resolved(parsed[g].gym)
                /\ (Resolved(parsed[g].gym) /\ Resolved(parsed[h].gym)) =>
                       MinutesOf(getDistanceInfo(parsed[g].gym, distancesData),
                                 distanceSort)
                         <= MinutesOf(getDistanceInfo(parsed[h].gym, distancesData),
                                      distanceSort)

FilterInputsUnchanged ==
    /\ allData' = allData
    /\ selectedGyms' = selectedGyms
    /\ selectedClasses' = selectedClasses
    /\ hideCancelled' = hideCancelled
    /\ searchText' = searchText
    /\ distanceSort' = distanceSort
    /\ gymLimit' = gymLimit
    /\ distancesData' = distancesData

SurvivingIndices ==
    {i \in DOMAIN allData : Survives(allData[i], trim(searchText))}

\* the places of the surviving events of a facility, in ascending order
PlacesOfGym(gymName) ==
    SetToSortedSeq({i \in SurvivingIndices : allData[i].gym = gymName})

\* C25: no group is empty and no facility has two groups; the group of a
\* facility holds the surviving events of that facility and no others, each
\* once, in the order of the day's events; so every surviving event of a
\* retained facility is in exactly one group and the groups hold as many
\* events as survive at the retained facilities.
C25_GroupingKeepsEveryEventOnce ==
    /\ \A g \in DOMAIN parsed : parsed[g].items # <<>>
    /\ \A g, h \in DOMAIN parsed : g # h => parsed[g].gym # parsed[h].gym
    /\ \A g \in DOMAIN parsed :
           /\ Len(parsed[g].items) = Len(PlacesOfGym(parsed[g].gym))
           /\ \A k \in DOMAIN parsed[g].items :
                  /\ parsed[g].items[k].gym = parsed[g].gym
                  /\ parsed[g].items[k] = allData[PlacesOfGym(parsed[g].gym)[k]]
    /\ NotTruncated =>
           ShownGyms = {allData[i].gym : i \in SurvivingIndices}

\* all six events of the first day in four groups, the two events of Ashland
\* and the two of Glenarm in the order of the day file
C25_Witness ==
    /\ shownDay = 1
    /\ ~hideCancelled
    /\ statusText = Showing(allData)
    /\ Len(parsed) = 4
    /\ \E g, h \in DOMAIN parsed :
          /\ parsed[g] = [gym |-> "Ashland",
                          items |-> <<Ev("Ashland", "Yoga", "Fitness", FALSE),
                                      Ev("Ashland", "Lap Swim", "Aquatics", TRUE)>>]
          /\ parsed[h] = [gym |-> "Glenarm",
                          items |-> <<Ev("Glenarm", "Yoga", "Fitness", TRUE),
                                      Ev("Glenarm", "Open Gym", "", FALSE)>>]

\* the number of events in the facility groups handed to renderCalendar
EventsInGroups ==
    Cardinality(UNION {{<<g, k>> : k \in DOMAIN parsed[g].items} :
                          g \in DOMAIN parsed})

\* C30: after applyFilters the count in the status message is the number of
\* events in the facility groups handed to rendering, for every filter
\* state and facility limit.
C30_StatusCountsEventsOfGroups ==
    statusText.kind = "showing" => statusText.count = EventsInGroups

----------------------------------------------------------------------------
(* Properties of the loading of days *)

\* C19: when the fetch of a day (or of the week) has failed and the status
\* line shows the error, the calendar is empty or shows the day of the
\* current tab: the events of the day loaded before are not left on display
\* under the newly selected day.
C19_FailedFetchShowsNoStaleDay ==
    (statusText.kind = "error" /\ dayFetches = <<>>) =>
        (parsed = <<>> \/ shownDay = currentDayIndex)

\* C27: when no fetch of a day file is pending and the last one has
\* delivered its events, the events held and on display are those of the
\* day of the current tab, whose date the calendar links carry, whatever the
\* order of the clicks and of the answers.
C27_ShownDayIsCurrentDay ==
    (dayFetches = <<>> /\ statusText.kind = "showing") =>
        /\ shownDay = currentDayIndex
        /\ allData = DayFiles[currentDayIndex]

\* C29: after day loads, toggles and resets, every selected facility is a
\* facility of the loaded day and every selected activity is an activity of
\* the loaded day.
C29_SelectionWithinLoadedDay ==
    /\ selectedGyms \subseteq allGyms
    /\ selectedClasses \subseteq allClasses

====
